---- MODULE Spec2Model ----
(***************************************************************************)
(* StationsWithoutRDS: the server-side telemetry monitor                   *)
(* (onTextMessage, the accumulator window, the generation-guarded          *)
(* periodic broadcast and the leading-edge throttle of the transmitter     *)
(* push).  The model follows the latest server variant of the repository   *)
(* (src/unnamed/part_000, lines 1288-2280).                                *)
(*                                                                         *)
(* Encoding of JavaScript values:                                          *)
(*   frequencies  integers in kHz; FNull is null, FUndef is undefined      *)
(*   signal       integers in 0.01 dB (11.25 dB is 1125); SigNaN is a      *)
(*                value for which Number.isFinite fails                    *)
(*   identifiers  strings; PNull is null                                   *)
(*   antenna      naturals; AntNull is null                                *)
(*   timers       the due time in ms; NoTimer is null                      *)
(*   time         Date.now() in ms                                         *)
(* Arithmetic on signal levels is exact (no floating-point rounding).      *)
(***************************************************************************)
EXTENDS Integers, Sequences, FiniteSets, TLC

(* ------------------------------ bounds --------------------------------- *)
MaxTime == 7000
MaxTimeTx == 2000
MaxGen == 5
MaxInFlight == 2
MaxSamples == 2
MaxMapKeys == 3

(* -------------------------- program constants -------------------------- *)
CalibrationOffset == 1125
BroadcastPeriodMs == 3000
ThrottleIntervalMs == 250
ThresholdTolerance == 300
SecondMs == 1000

\* granularity of the clock: Date.now() starts at a positive time and moves in
\* steps of one broadcast period (in eighths of a second where the throttle
\* is observed); stableTime is chosen in whole periods, so a window can end
\* exactly at, before or after its stableTime
StartTime == SecondMs
TickMs == BroadcastPeriodMs
FineTickMs == SecondMs \div 8

FNull == 0
FUndef == -1
AntNull == -1
NoTimer == 0
SigNaN == -100000
PNull == "null"
Placeholder == "?"
NoTx == "none"

F1 == 88000
F2 == 91000
P1 == "1234"
SigLow == 1500
SigHigh == 3000

(* -------------------------- configuration ------------------------------ *)
\* thresholdSignals is the sequence of the map's entries in key order
CfgA ==
  [thresholdSignal |-> 1000, hasMap |-> FALSE, thresholdSignals |-> <<>>,
   stableTime |-> 3]
CfgB ==
  [thresholdSignal |-> 1000, hasMap |-> TRUE,
   thresholdSignals |->
     << [kind |-> "exact", a |-> 88000, b |-> 88000, v |-> 800],
        [kind |-> "range", a |-> 92000, b |-> 90000, v |-> 1200],
        [kind |-> "all", a |-> 0, b |-> 0, v |-> 500] >>,
   stableTime |-> 6]
Configs == {CfgA, CfgB}

(* ----------------------------- telemetry ------------------------------- *)
Msg(f, s, p, ps, a, tx) ==
  [freq |-> f, sig |-> s, pi |-> p, ps |-> ps, ant |-> a, tx |-> tx]

Msgs ==
  { Msg(F1, s, p, "PS", 0, NoTx) : s \in {SigLow, SigHigh}, p \in {Placeholder, P1} }
  \cup { Msg(F1, s, P1, "PS", 1, NoTx) : s \in {SigLow, SigHigh} }
  \cup { Msg(F2, s, P1, "PS", 0, NoTx) : s \in {SigLow, SigHigh} }
  \cup { Msg(f, SigHigh, P1, "PS", 0, "TX") : f \in {F1, F2} }
  \cup { Msg(F1, SigHigh, P1, "", 0, "TX"),
         Msg(FUndef, SigHigh, P1, "PS", 0, NoTx),
         Msg(F1, SigNaN, P1, "PS", 0, NoTx) }

NoMsg == Msg(FNull, 0, PNull, "", 0, NoTx)

VARIABLES
  now,                \* Date.now()
  cfgFile,            \* contents of the plugin's configuration file (fixed during a run)
  wsPluginsOpen,      \* wsPlugins.readyState === WebSocket.OPEN
  lastFrequency,
  signalFixed,
  signalSum,
  signalCount,
  signalWindowStart,
  monitorState,
  lastCallTs,         \* the throttle's closure variable
  inflight,           \* broadcastFindOnce calls suspended in their await
  windowMin,          \* history: the lowest sample of the current window
  txHist,             \* history: last fired throttled call, reset since then,
                      \* whether the last telemetry event had transmitterInfo,
                      \* whether the last push attempted had an empty list,
                      \* the intervals set and not cleared
  step,               \* what the last step did (observation only)
  locationsCache,     \* the primary geo dataset
  locationsCacheFMLIST, \* the secondary geo dataset
  logosCacheFMLIST,   \* the catalog-id -> logo mapping
  localLogos,         \* normalized name -> file of the local logo directory
  noobishCache,       \* country code -> remote file listing
  call                \* a call of one of the lookup functions and its result

monitorVars ==
  << now, cfgFile, wsPluginsOpen, lastFrequency, signalFixed, signalSum,
     signalCount, signalWindowStart, monitorState, lastCallTs, inflight,
     windowMin, txHist, step >>

dataVars ==
  << locationsCache, locationsCacheFMLIST, logosCacheFMLIST, localLogos,
     noobishCache, call >>

vars == << monitorVars, dataVars >>

(* --------------------------- the context ------------------------------- *)
\* The mutable program state a handler works on, with the pushes it attempts
\* (out), the branches it takes (path) and the state right after the
\* frequency-change and antenna-change blocks (afterFreq, afterAnt).
Ctx ==
  [ms |-> monitorState,
   lastFrequency |-> lastFrequency,
   signalFixed |-> signalFixed,
   signalSum |-> signalSum,
   signalCount |-> signalCount,
   signalWindowStart |-> signalWindowStart,
   lastCallTs |-> lastCallTs,
   inflight |-> inflight,
   windowMin |-> windowMin,
   intervals |-> txHist.liveIntervals,
   out |-> <<>>,
   path |-> {},
   afterFreq |-> <<>>,
   afterAnt |-> <<>>]

Snap(c) ==
  [ms |-> c.ms, signalFixed |-> c.signalFixed, signalSum |-> c.signalSum,
   signalCount |-> c.signalCount, signalWindowStart |-> c.signalWindowStart]

Min2(a, b) == IF a <= b THEN a ELSE b
Max2(a, b) == IF a >= b THEN a ELSE b

Falsy(f) == f \in {FNull, FUndef}

\* wsSendPlugins that sends whatever the state of the socket
wsSendPlugins_IgnoresReadyState(c, value) ==
  [c EXCEPT !.out = Append(@, [freq |-> value.freq, pi |-> value.pi,
                               list |-> value.list, sent |-> TRUE])]

wsSendPlugins(c, value) ==
  [c EXCEPT !.out = Append(@, [freq |-> value.freq, pi |-> value.pi,
                               list |-> value.list, sent |-> wsPluginsOpen])]

\* if (monitorState.broadcastTimer) clearInterval(monitorState.broadcastTimer)
clearBroadcastInterval(c) ==
  IF c.ms.broadcastTimer # NoTimer
  THEN [c EXCEPT !.intervals = @ - 1]
  ELSE c

\* stopFindBroadcast without the generation increment
stopFindBroadcast_KeepsGen(c) ==
  [clearBroadcastInterval(c)
     EXCEPT !.ms.active = FALSE,
            !.ms.activeFrequency = FNull,
            !.ms.activePi = PNull,
            !.ms.broadcastTimer = NoTimer,
            !.ms.lastBroadcastAt = 0]

\* stopFindBroadcast that forgets the handle without clearInterval
stopFindBroadcast_LeaksInterval(c) ==
  [c EXCEPT !.ms.gen = @ + 1,
            !.ms.active = FALSE,
            !.ms.activeFrequency = FNull,
            !.ms.activePi = PNull,
            !.ms.broadcastTimer = NoTimer,
            !.ms.lastBroadcastAt = 0]

stopFindBroadcast(c) ==
  [clearBroadcastInterval(c)
     EXCEPT !.ms.gen = @ + 1,
            !.ms.active = FALSE,
            !.ms.activeFrequency = FNull,
            !.ms.activePi = PNull,
            !.ms.broadcastTimer = NoTimer,
            !.ms.lastBroadcastAt = 0]

\* resetMonitorState that forgets the pending identifier
resetMonitorState_KeepsPendingPi(c) ==
  stopFindBroadcast(
    [c EXCEPT !.ms.pendingFrequency = FNull,
              !.ms.pendingAnt = AntNull,
              !.ms.stableTimer = NoTimer])

resetMonitorState(c) ==
  stopFindBroadcast(
    [c EXCEPT !.ms.pendingFrequency = FNull,
              !.ms.pendingPi = PNull,
              !.ms.pendingAnt = AntNull,
              !.ms.stableTimer = NoTimer])

ThrottleReset(c) == [c EXCEPT !.lastCallTs = 0]

resetAllOnFrequencyChange(c) ==
  wsSendPlugins(ThrottleReset(resetMonitorState(c)),
                [freq |-> FNull, pi |-> PNull, list |-> <<>>])

\* broadcastFindOnce up to its await: the search is dispatched with the
\* identity and the generation captured here
broadcastFindOnce(c) ==
  IF ~c.ms.active \/ Falsy(c.ms.activeFrequency)
  THEN c
  ELSE [c EXCEPT !.inflight =
          Append(@, [freq |-> c.ms.activeFrequency, pi |-> c.ms.activePi,
                     ant |-> c.ms.ant, gen |-> c.ms.gen, peerPushed |-> FALSE])]

\* what the awaited searchStations(freq, pi, ant) can settle with: a rejection,
\* an empty list or a list of candidates
Candidate(s) == [isServer |-> FALSE, freq |-> s.freq, station |-> "S1"]

SearchOutcomes(s) ==
  { [ok |-> FALSE, list |-> <<>>],
    [ok |-> TRUE, list |-> <<>>],
    [ok |-> TRUE, list |-> << Candidate(s) >>] }

AllOutcomes ==
  UNION { SearchOutcomes([freq |-> f]) : f \in {F1, F2} }

\* broadcastFindOnce from its await on, without the generation comparison
broadcastFindOnceResume_NoGenCheck(c, s, o) ==
  IF ~o.ok THEN c
  ELSE IF ~c.ms.active THEN c
  ELSE [wsSendPlugins(c, [freq |-> s.freq, pi |-> s.pi, list |-> o.list])
          EXCEPT !.ms.lastBroadcastAt = now]

\* broadcastFindOnce from its await on
broadcastFindOnceResume(c, s, o) ==
  IF ~o.ok THEN c
  ELSE IF ~c.ms.active THEN c
  ELSE IF s.gen # c.ms.gen THEN c
  ELSE [wsSendPlugins(c, [freq |-> s.freq, pi |-> s.pi, list |-> o.list])
          EXCEPT !.ms.lastBroadcastAt = now]

RemoveAt(seq, i) == SubSeq(seq, 1, i - 1) \o SubSeq(seq, i + 1, Len(seq))

\* startFindBroadcast that only arms the interval timer
startFindBroadcast_TimerOnly(c, freq, pi, ant) ==
  [clearBroadcastInterval(c)
     EXCEPT !.ms.active = TRUE,
            !.ms.activeFrequency = freq,
            !.ms.activePi = pi,
            !.ms.ant = ant,
            !.ms.broadcastTimer = now + BroadcastPeriodMs,
            !.intervals = @ + 1]

startFindBroadcast(c, freq, pi, ant) ==
  LET c1 == [c EXCEPT !.ms.active = TRUE,
                      !.ms.activeFrequency = freq,
                      !.ms.activePi = pi,
                      !.ms.ant = ant]
      c2 == clearBroadcastInterval(broadcastFindOnce(c1))
  IN [c2 EXCEPT !.ms.broadcastTimer = now + BroadcastPeriodMs,
                !.intervals = @ + 1]

(* ------------------------ threshold resolution ------------------------- *)
\* the first index of a loop over Object.keys(map) that returns, 0 if none
FirstIndex(S) ==
  IF S = {} THEN 0 ELSE CHOOSE i \in S : \A j \in S : i <= j

\* the loops in the other order: ranges before exact frequencies
getThresholdForFrequency_RangeFirst(freq, pluginConfig) ==
  IF freq = FUndef THEN pluginConfig.thresholdSignal
  ELSE IF ~pluginConfig.hasMap THEN pluginConfig.thresholdSignal
  ELSE
    LET map == pluginConfig.thresholdSignals
        IsExact(e) == e.kind = "exact" /\ e.a = freq
        InRange(e) == e.kind = "range" /\ freq >= Min2(e.a, e.b) /\ freq <= Max2(e.a, e.b)
        IsAll(e) == e.kind = "all"
        ie == FirstIndex({ i \in 1..Len(map) : IsExact(map[i]) })
        ir == FirstIndex({ i \in 1..Len(map) : InRange(map[i]) })
        ia == FirstIndex({ i \in 1..Len(map) : IsAll(map[i]) })
    IN IF ir # 0 THEN map[ir].v
       ELSE IF ie # 0 THEN map[ie].v
       ELSE IF ia # 0 THEN map[ia].v
       ELSE pluginConfig.thresholdSignal

getThresholdForFrequency(freq, pluginConfig) ==
  IF freq = FUndef THEN pluginConfig.thresholdSignal
  ELSE IF ~pluginConfig.hasMap THEN pluginConfig.thresholdSignal
  ELSE
    LET map == pluginConfig.thresholdSignals
        IsExact(e) == e.kind = "exact" /\ e.a = freq
        InRange(e) == e.kind = "range" /\ freq >= Min2(e.a, e.b) /\ freq <= Max2(e.a, e.b)
        IsAll(e) == e.kind = "all"
        ie == FirstIndex({ i \in 1..Len(map) : IsExact(map[i]) })
        ir == FirstIndex({ i \in 1..Len(map) : InRange(map[i]) })
        ia == FirstIndex({ i \in 1..Len(map) : IsAll(map[i]) })
    IN IF ie # 0 THEN map[ie].v
       ELSE IF ir # 0 THEN map[ir].v
       ELSE IF ia # 0 THEN map[ia].v
       ELSE pluginConfig.thresholdSignal

(* ------------------------------ TX mode -------------------------------- *)
sendRequest(c, args) ==
  wsSendPlugins(c,
    [freq |-> args.frequency, pi |-> args.pi,
     list |-> << [isServer |-> TRUE, freq |-> args.frequency,
                  station |-> args.data.tx] >>])

\* a throttle that restarts its window on every call, fired or dropped
throttledSendTx_RestartsWindow(c, args) ==
  IF now - c.lastCallTs >= ThrottleIntervalMs
  THEN sendRequest([c EXCEPT !.lastCallTs = now], args)
  ELSE [c EXCEPT !.lastCallTs = now]

\* the function returned by throttleLeading(sendRequest, 250)
throttledSendTx(c, args) ==
  IF now - c.lastCallTs >= ThrottleIntervalMs
  THEN sendRequest([c EXCEPT !.lastCallTs = now], args)
  ELSE c

(* --------------------------- /text handler ----------------------------- *)
PiOf(data) ==
  IF data.pi = Placeholder \/ data.ps = "" THEN PNull ELSE data.pi

HasTx(data) == data.tx # NoTx /\ PiOf(data) # PNull

SignalDbuv(data) == data.sig - CalibrationOffset

\* `frequency` is a const declared further down the function body: in the
\* TX branch it is read inside its temporal dead zone
FrequencyInitialisedInTxBranch == FALSE

FrequencyChangeBlock(c, data) ==
  IF data.freq # c.lastFrequency
  THEN LET c1 == resetAllOnFrequencyChange([c EXCEPT !.lastFrequency = data.freq])
           c2 == [c1 EXCEPT !.signalFixed = FALSE, !.signalSum = 0,
                            !.signalCount = 0, !.signalWindowStart = 0,
                            !.windowMin = <<>>,
                            !.path = @ \cup {"freq"}]
       IN [c2 EXCEPT !.afterFreq = << Snap(c2) >>]
  ELSE c

\* a TX branch placed after the frequency-change block
TxBranch_AfterFrequencyChange(c, data) ==
  LET c1 == FrequencyChangeBlock(c, data)
  IN [c1 EXCEPT !.path = @ \cup {"tx", "throws"}]

TxBranch(c, data) ==
  IF FrequencyInitialisedInTxBranch
  THEN throttledSendTx([c EXCEPT !.path = {"tx"}],
         [frequency |-> data.freq, pi |-> PiOf(data), data |-> data])
  ELSE [c EXCEPT !.path = {"tx", "throws"}]

\* the antenna-change block without its stopFindBroadcast()
AntennaChangeBlock_NoStop(c, data) ==
  IF data.ant # c.ms.pendingAnt
  THEN LET c2 == [c EXCEPT !.signalFixed = FALSE, !.signalSum = 0,
                           !.signalCount = 0, !.signalWindowStart = 0,
                           !.windowMin = <<>>,
                           !.ms.stableTimer = NoTimer,
                           !.ms.pendingAnt = data.ant,
                           !.path = @ \cup {"ant"}]
           c3 == wsSendPlugins(c2, [freq |-> IF data.freq = FUndef THEN FNull ELSE data.freq,
                                    pi |-> PNull, list |-> <<>>])
       IN [c3 EXCEPT !.afterAnt = << Snap(c3) >>]
  ELSE c

AntennaChangeBlock(c, data) ==
  IF data.ant # c.ms.pendingAnt
  THEN LET c1 == stopFindBroadcast(c)
           c2 == [c1 EXCEPT !.signalFixed = FALSE, !.signalSum = 0,
                            !.signalCount = 0, !.signalWindowStart = 0,
                            !.windowMin = <<>>,
                            !.ms.stableTimer = NoTimer,
                            !.ms.pendingAnt = data.ant,
                            !.path = @ \cup {"ant"}]
           c3 == wsSendPlugins(c2, [freq |-> IF data.freq = FUndef THEN FNull ELSE data.freq,
                                    pi |-> PNull, list |-> <<>>])
       IN [c3 EXCEPT !.afterAnt = << Snap(c3) >>]
  ELSE c

\* the window completes only when the elapsed time exceeds stableTime
AccumulateBlock_StrictElapsed(c, data, threshold, stableTimeMs) ==
  LET c1 == IF c.signalWindowStart = 0
            THEN [c EXCEPT !.signalWindowStart = now, !.signalSum = 0, !.signalCount = 0,
                           !.windowMin = <<>>]
            ELSE c
      c2 == [c1 EXCEPT !.signalSum = @ + SignalDbuv(data), !.signalCount = @ + 1,
                       !.windowMin = IF @ = <<>> THEN << SignalDbuv(data) >>
                                     ELSE << Min2(@[1], SignalDbuv(data)) >>]
      elapsed == now - c2.signalWindowStart
  IN IF elapsed <= stableTimeMs
     THEN [c2 EXCEPT !.path = @ \cup {"incomplete"}]
     ELSE IF c2.signalSum < threshold * c2.signalCount
     THEN stopFindBroadcast(
            [c2 EXCEPT !.signalWindowStart = 0, !.signalSum = 0, !.signalCount = 0,
                       !.windowMin = <<>>,
                       !.path = @ \cup {"belowMean"}])
     ELSE startFindBroadcast(
            stopFindBroadcast(
              [c2 EXCEPT !.signalFixed = TRUE,
                         !.ms.pendingFrequency = data.freq,
                         !.ms.pendingPi = PiOf(data),
                         !.ms.pendingAnt = data.ant,
                         !.path = @ \cup {"fix"}]),
            data.freq, PiOf(data), data.ant)

\* a window whose mean is below the threshold leaves the broadcast running
AccumulateBlock_BelowMeanKeepsBroadcast(c, data, threshold, stableTimeMs) ==
  LET c1 == IF c.signalWindowStart = 0
            THEN [c EXCEPT !.signalWindowStart = now, !.signalSum = 0, !.signalCount = 0,
                           !.windowMin = <<>>]
            ELSE c
      c2 == [c1 EXCEPT !.signalSum = @ + SignalDbuv(data), !.signalCount = @ + 1,
                       !.windowMin = IF @ = <<>> THEN << SignalDbuv(data) >>
                                     ELSE << Min2(@[1], SignalDbuv(data)) >>]
      elapsed == now - c2.signalWindowStart
  IN IF elapsed < stableTimeMs
     THEN [c2 EXCEPT !.path = @ \cup {"incomplete"}]
     ELSE IF c2.signalSum < threshold * c2.signalCount
     THEN [c2 EXCEPT !.signalWindowStart = 0, !.signalSum = 0, !.signalCount = 0,
                     !.windowMin = <<>>,
                     !.path = @ \cup {"belowMean"}]
     ELSE startFindBroadcast(
            stopFindBroadcast(
              [c2 EXCEPT !.signalFixed = TRUE,
                         !.ms.pendingFrequency = data.freq,
                         !.ms.pendingPi = PiOf(data),
                         !.ms.pendingAnt = data.ant,
                         !.path = @ \cup {"fix"}]),
            data.freq, PiOf(data), data.ant)

AccumulateBlock(c, data, threshold, stableTimeMs) ==
  LET c1 == IF c.signalWindowStart = 0
            THEN [c EXCEPT !.signalWindowStart = now, !.signalSum = 0, !.signalCount = 0,
                           !.windowMin = <<>>]
            ELSE c
      c2 == [c1 EXCEPT !.signalSum = @ + SignalDbuv(data), !.signalCount = @ + 1,
                       !.windowMin = IF @ = <<>> THEN << SignalDbuv(data) >>
                                     ELSE << Min2(@[1], SignalDbuv(data)) >>]
      elapsed == now - c2.signalWindowStart
  IN IF elapsed < stableTimeMs
     THEN [c2 EXCEPT !.path = @ \cup {"incomplete"}]
     ELSE IF c2.signalSum < threshold * c2.signalCount
     THEN stopFindBroadcast(
            [c2 EXCEPT !.signalWindowStart = 0, !.signalSum = 0, !.signalCount = 0,
                       !.windowMin = <<>>,
                       !.path = @ \cup {"belowMean"}])
     ELSE startFindBroadcast(
            stopFindBroadcast(
              [c2 EXCEPT !.signalFixed = TRUE,
                         !.ms.pendingFrequency = data.freq,
                         !.ms.pendingPi = PiOf(data),
                         !.ms.pendingAnt = data.ant,
                         !.path = @ \cup {"fix"}]),
            data.freq, PiOf(data), data.ant)

\* after fixation an identifier change is not noticed
onTextMessage_IgnoresPiChange(c, data, pluginConfig) ==
  IF HasTx(data) THEN TxBranch(c, data)
  ELSE
    LET threshold == getThresholdForFrequency(data.freq, pluginConfig)
        stableTimeMs == pluginConfig.stableTime * SecondMs
        c1 == FrequencyChangeBlock(c, data)
        freqChanged == data.freq # c1.ms.pendingFrequency
        piChanged == PiOf(data) # c1.ms.pendingPi
        antChanged == data.ant # c1.ms.pendingAnt
        c2 == AntennaChangeBlock(c1, data)
    IN IF Falsy(data.freq) \/ data.sig = SigNaN
       THEN [c2 EXCEPT !.path = @ \cup {"unusable"}]
       ELSE IF ~c2.signalFixed
       THEN AccumulateBlock(c2, data, threshold, stableTimeMs)
       ELSE IF freqChanged \/ antChanged
       THEN [c2 EXCEPT !.signalFixed = FALSE, !.signalWindowStart = 0,
                       !.signalSum = 0, !.signalCount = 0, !.windowMin = <<>>,
                       !.path = @ \cup {"unfix"}]
       ELSE [c2 EXCEPT !.path = @ \cup {"fixed"}]

\* after fixation a sample below the threshold cancels the broadcast
onTextMessage_RechecksSignal(c, data, pluginConfig) ==
  IF HasTx(data) THEN TxBranch(c, data)
  ELSE
    LET threshold == getThresholdForFrequency(data.freq, pluginConfig)
        stableTimeMs == pluginConfig.stableTime * SecondMs
        c1 == FrequencyChangeBlock(c, data)
        freqChanged == data.freq # c1.ms.pendingFrequency
        piChanged == PiOf(data) # c1.ms.pendingPi
        antChanged == data.ant # c1.ms.pendingAnt
        c2 == AntennaChangeBlock(c1, data)
    IN IF Falsy(data.freq) \/ data.sig = SigNaN
       THEN [c2 EXCEPT !.path = @ \cup {"unusable"}]
       ELSE IF ~c2.signalFixed
       THEN AccumulateBlock(c2, data, threshold, stableTimeMs)
       ELSE IF freqChanged \/ piChanged \/ antChanged
       THEN [c2 EXCEPT !.signalFixed = FALSE, !.signalWindowStart = 0,
                       !.signalSum = 0, !.signalCount = 0, !.windowMin = <<>>,
                       !.path = @ \cup {"unfix"}]
       ELSE IF SignalDbuv(data) < threshold
       THEN stopFindBroadcast([c2 EXCEPT !.signalFixed = FALSE,
                                         !.path = @ \cup {"fixed"}])
       ELSE [c2 EXCEPT !.path = @ \cup {"fixed"}]

onTextMessage(c, data, pluginConfig) ==
  IF HasTx(data) THEN TxBranch(c, data)
  ELSE
    LET threshold == getThresholdForFrequency(data.freq, pluginConfig)
        stableTimeMs == pluginConfig.stableTime * SecondMs
        c1 == FrequencyChangeBlock(c, data)
        freqChanged == data.freq # c1.ms.pendingFrequency
        piChanged == PiOf(data) # c1.ms.pendingPi
        antChanged == data.ant # c1.ms.pendingAnt
        c2 == AntennaChangeBlock(c1, data)
    IN IF Falsy(data.freq) \/ data.sig = SigNaN
       THEN [c2 EXCEPT !.path = @ \cup {"unusable"}]
       ELSE IF ~c2.signalFixed
       THEN AccumulateBlock(c2, data, threshold, stableTimeMs)
       ELSE IF freqChanged \/ piChanged \/ antChanged
       THEN [c2 EXCEPT !.signalFixed = FALSE, !.signalWindowStart = 0,
                       !.signalSum = 0, !.signalCount = 0, !.windowMin = <<>>,
                       !.path = @ \cup {"unfix"}]
       ELSE [c2 EXCEPT !.path = @ \cup {"fixed"}]

(* ------------------------------ actions -------------------------------- *)
Obs(kind, data, c, search) ==
  [kind |-> kind, data |-> data, path |-> c.path, out |-> c.out,
   afterFreq |-> c.afterFreq, afterAnt |-> c.afterAnt, search |-> search]

Commit(c) ==
  /\ monitorState' = c.ms
  /\ lastFrequency' = c.lastFrequency
  /\ signalFixed' = c.signalFixed
  /\ signalSum' = c.signalSum
  /\ signalCount' = c.signalCount
  /\ signalWindowStart' = c.signalWindowStart
  /\ lastCallTs' = c.lastCallTs
  /\ inflight' = c.inflight
  /\ windowMin' = c.windowMin
  /\ txHist' =
       LET h == IF \E k \in 1..Len(c.out) :
                     c.out[k].list # <<>> /\ c.out[k].list[1].isServer
                THEN [txHist EXCEPT !.firedAt = now, !.resetSince = FALSE]
                ELSE IF "freq" \in c.path THEN [txHist EXCEPT !.resetSince = TRUE]
                ELSE txHist
       IN [h EXCEPT !.authoritative = IF "tx" \in c.path THEN TRUE
                                      ELSE IF c.path # {} THEN FALSE
                                      ELSE @,
                    !.lastPushEmpty = IF c.out # <<>>
                                      THEN c.out[Len(c.out)].list = <<>>
                                      ELSE @,
                    !.liveIntervals = c.intervals]

\* the module-level state right after the plugin is loaded
MonitorInit ==
  /\ now = StartTime
  /\ wsPluginsOpen = TRUE
  /\ lastFrequency = FNull
  /\ signalFixed = FALSE
  /\ signalSum = 0
  /\ signalCount = 0
  /\ signalWindowStart = 0
  /\ monitorState =
       [pendingFrequency |-> FNull, pendingPi |-> PNull, pendingAnt |-> AntNull,
        stableTimer |-> NoTimer, active |-> FALSE, activeFrequency |-> FNull,
        activePi |-> PNull, ant |-> AntNull, broadcastTimer |-> NoTimer,
        lastBroadcastAt |-> 0, gen |-> 0]
  /\ lastCallTs = 0
  /\ inflight = <<>>
  /\ windowMin = <<>>
  /\ txHist = [firedAt |-> 0, resetSince |-> FALSE, authoritative |-> FALSE,
               lastPushEmpty |-> TRUE, liveIntervals |-> 0]
  /\ step = Obs("init", NoMsg, Ctx, <<>>)

NoCall == [fn |-> "none", args |-> <<>>, done |-> TRUE, result |-> <<>>]

\* nothing loaded yet: the caches as declared
DataInit ==
  /\ locationsCache = <<>>
  /\ locationsCacheFMLIST = <<>>
  /\ logosCacheFMLIST = <<>>
  /\ localLogos = <<>>
  /\ noobishCache = <<>>

Init ==
  /\ MonitorInit
  /\ cfgFile \in Configs
  /\ DataInit
  /\ call = NoCall

\* wsText.onmessage with a frame that parses: onTextMessage(data)
TextMessage(data) ==
  LET c == onTextMessage(Ctx, data, cfgFile)
  IN /\ c.ms.gen <= MaxGen
     /\ c.signalCount <= MaxSamples
     /\ Len(c.inflight) <= MaxInFlight
     /\ Commit(c)
     /\ step' = Obs("text", data, c, <<>>)
     /\ UNCHANGED << now, cfgFile, wsPluginsOpen >>
     /\ UNCHANGED dataVars

\* the setInterval callback of startFindBroadcast
BroadcastTimerFire ==
  /\ monitorState.broadcastTimer # NoTimer
  /\ now >= monitorState.broadcastTimer
  /\ Len(inflight) < MaxInFlight
  /\ LET c0 == broadcastFindOnce(Ctx)
         c == [c0 EXCEPT !.ms.broadcastTimer = @ + BroadcastPeriodMs]
     IN Commit(c) /\ step' = Obs("timer", NoMsg, c, <<>>)
  /\ UNCHANGED << now, cfgFile, wsPluginsOpen >>
  /\ UNCHANGED dataVars

\* the await of the i-th suspended broadcastFindOnce settles with outcome o
SearchResolve(i, o) ==
  /\ i \in 1..Len(inflight)
  /\ LET s == inflight[i]
         rest == RemoveAt(inflight, i)
         c0 == broadcastFindOnceResume([Ctx EXCEPT !.inflight = rest], s, o)
         c == IF c0.out # <<>>
              THEN [c0 EXCEPT !.inflight =
                      [j \in 1..Len(rest) |-> [rest[j] EXCEPT !.peerPushed = TRUE]]]
              ELSE c0
     IN /\ o \in SearchOutcomes(s)
        /\ Commit(c)
        /\ step' = Obs("resolve", NoMsg, c, << [s |-> s, o |-> o] >>)
  /\ UNCHANGED << now, cfgFile, wsPluginsOpen >>
  /\ UNCHANGED dataVars

\* time passes; a due interval timer fires before the clock moves past it
NoTimerDue ==
  monitorState.broadcastTimer = NoTimer \/ now < monitorState.broadcastTimer

Tick ==
  /\ now + TickMs <= MaxTime
  /\ NoTimerDue
  /\ now' = now + TickMs
  /\ step' = Obs("clock", NoMsg, Ctx, <<>>)
  /\ UNCHANGED << cfgFile, wsPluginsOpen, lastFrequency, signalFixed, signalSum,
                  signalCount, signalWindowStart, monitorState, lastCallTs, inflight,
                  windowMin, txHist >>
  /\ UNCHANGED dataVars

\* wsPlugins closes / connectPluginsWS opens a new socket
PluginsWSClose ==
  /\ wsPluginsOpen
  /\ wsPluginsOpen' = FALSE
  /\ step' = Obs("close", NoMsg, Ctx, <<>>)
  /\ UNCHANGED << now, cfgFile, lastFrequency, signalFixed, signalSum,
                  signalCount, signalWindowStart, monitorState, lastCallTs, inflight,
                  windowMin, txHist >>
  /\ UNCHANGED dataVars

PluginsWSOpen ==
  /\ ~wsPluginsOpen
  /\ wsPluginsOpen' = TRUE
  /\ step' = Obs("open", NoMsg, Ctx, <<>>)
  /\ UNCHANGED << now, cfgFile, lastFrequency, signalFixed, signalSum,
                  signalCount, signalWindowStart, monitorState, lastCallTs, inflight,
                  windowMin, txHist >>
  /\ UNCHANGED dataVars

Next ==
  \/ \E data \in Msgs : TextMessage(data)
  \/ BroadcastTimerFire
  \/ \E i \in 1..MaxInFlight : \E o \in AllOutcomes : SearchResolve(i, o)
  \/ Tick

Spec == Init /\ [][Next]_vars

(* --------------- the throttle driven by a caller of its own ------------ *)
\* a call throttledSendTx({ pluginName, frequency, pi, data }) whose
\* arguments are all initialised
ThrottledSendTxCall(data) ==
  /\ HasTx(data)
  /\ LET c == throttledSendTx(Ctx, [frequency |-> data.freq, pi |-> PiOf(data),
                                    data |-> data])
     IN Commit(c) /\ step' = Obs("txcall", data, c, <<>>)
  /\ UNCHANGED << now, cfgFile, wsPluginsOpen >>
  /\ UNCHANGED dataVars

FineTick ==
  /\ now + FineTickMs <= MaxTimeTx
  /\ NoTimerDue
  /\ now' = now + FineTickMs
  /\ step' = Obs("clock", NoMsg, Ctx, <<>>)
  /\ UNCHANGED << cfgFile, wsPluginsOpen, lastFrequency, signalFixed, signalSum,
                  signalCount, signalWindowStart, monitorState, lastCallTs, inflight,
                  windowMin, txHist >>
  /\ UNCHANGED dataVars

TxMsgs == { Msg(f, SigHigh, P1, "PS", 0, "TX") : f \in {F1, F2} }
TuneMsgs == { Msg(f, SigLow, Placeholder, "PS", 0, NoTx) : f \in {F1, F2} }

NextTx ==
  \/ \E data \in TxMsgs : ThrottledSendTxCall(data)
  \/ \E data \in TuneMsgs : TextMessage(data)
  \/ FineTick
  \/ PluginsWSClose
  \/ PluginsWSOpen

SpecTx == Init /\ [][NextTx]_vars

(* ------------- the monitor with a push channel that closes ------------- *)
\* strong samples on two frequencies
PushMsgs == { Msg(f, SigHigh, P1, "PS", 0, NoTx) : f \in {F1, F2} }

NextPush ==
  \/ \E data \in PushMsgs : TextMessage(data)
  \/ BroadcastTimerFire
  \/ \E i \in 1..MaxInFlight : \E o \in AllOutcomes : SearchResolve(i, o)
  \/ Tick
  \/ PluginsWSClose
  \/ PluginsWSOpen

SpecPush == Init /\ [][NextPush]_vars

(* --------------------- threshold resolution, called -------------------- *)
\* keys of a thresholdSignals map with their values: exact frequencies,
\* ranges written in either order, the catch-all
ThresholdEntries ==
  { [kind |-> "exact", a |-> 88000, b |-> 88000, v |-> 800],
    [kind |-> "range", a |-> 90000, b |-> 92000, v |-> 1200],
    [kind |-> "range", a |-> 93000, b |-> 92000, v |-> 1300],
    [kind |-> "range", a |-> 87000, b |-> 89000, v |-> 300],
    [kind |-> "all", a |-> 0, b |-> 0, v |-> 500] }

\* the maps of at most MaxMapKeys keys, in every key order
ThresholdMaps ==
  { m \in UNION { [1..k -> ThresholdEntries] : k \in 0..MaxMapKeys } :
      \A i, j \in DOMAIN m : i # j => m[i] # m[j] }

ThresholdConfigs ==
  { [thresholdSignal |-> 1000, hasMap |-> TRUE, thresholdSignals |-> m,
     stableTime |-> 3] : m \in ThresholdMaps }
  \cup { CfgA }

ThresholdFreqs == { 88000, 89000, 90000, 91000, 92000, 93000, 100000, FUndef }

InitThreshold ==
  /\ MonitorInit
  /\ cfgFile \in ThresholdConfigs
  /\ DataInit
  /\ \E f \in ThresholdFreqs :
       call = [fn |-> "getThresholdForFrequency", args |-> [freq |-> f],
               done |-> FALSE, result |-> <<>>]

\* const threshold = getThresholdForFrequency(frequency, pluginConfig)
ResolveThreshold ==
  /\ call.fn = "getThresholdForFrequency"
  /\ ~call.done
  /\ call' = [call EXCEPT !.done = TRUE,
                          !.result = << getThresholdForFrequency(call.args.freq, cfgFile) >>]
  /\ UNCHANGED monitorVars
  /\ UNCHANGED << locationsCache, locationsCacheFMLIST, logosCacheFMLIST,
                  localLogos, noobishCache >>

NextThreshold == ResolveThreshold

SpecThreshold == InitThreshold /\ [][NextThreshold]_vars

(* ------------------------------ strings -------------------------------- *)
\* a string is the sequence of its characters; the extension of a file
\* name, dot included, is one element
Letters ==
  { "A", "B", "C", "D", "E", "F", "I", "N", "O", "P", "R", "X",
    "a", "b", "c", "d", "i", "n", "o", "r", "x" }
Digits == { "0", "1", "2", "3", "7" }
HexDigits == Digits \cup { "A", "B", "C", "D", "E", "F" }
Extensions == { ".png", ".svg", ".gif", ".PNG" }

toUpperCase(ch) ==
  CASE ch = "a" -> "A" [] ch = "b" -> "B" [] ch = "c" -> "C"
    [] ch = "d" -> "D" [] ch = "i" -> "I" [] ch = "n" -> "N"
    [] ch = "o" -> "O" [] ch = "r" -> "R" [] ch = "x" -> "X"
    [] OTHER -> ch

UpperCase(str) == [i \in 1..Len(str) |-> toUpperCase(str[i])]

IsWordChar(ch) == ch \in Letters \cup Digits \cup { "_" }
IsHexDigit(ch) == ch \in HexDigits
IsNotSpace(ch) == ch # " "

RADIO == << "R", "A", "D", "I", "O" >>

StartsWith(str, prefix) ==
  Len(str) >= Len(prefix) /\ SubSeq(str, 1, Len(prefix)) = prefix

\* str.replace(/^RADIO/, '')
RemoveLeadingRadio(str) ==
  IF StartsWith(str, RADIO) THEN SubSeq(str, Len(RADIO) + 1, Len(str)) ELSE str

\* str.replace(/RADIO/g, ''): one pass from the left
RECURSIVE RemoveRadio(_)
RemoveRadio(str) ==
  IF str = <<>> THEN <<>>
  ELSE IF StartsWith(str, RADIO)
  THEN RemoveRadio(SubSeq(str, Len(RADIO) + 1, Len(str)))
  ELSE << Head(str) >> \o RemoveRadio(Tail(str))

\* a.includes(b)
Includes(a, b) ==
  \E i \in 1..(Len(a) + 1) :
    i + Len(b) - 1 <= Len(a) /\ SubSeq(a, i, i + Len(b) - 1) = b

normalizeName(str) ==
  SelectSeq(SelectSeq(RemoveRadio(UpperCase(str)), IsNotSpace), IsWordChar)

\* null is the empty sequence: normalizePi never returns ''
normalizePi(pi) == SelectSeq(UpperCase(pi), IsHexDigit)

\* s.replace(/\.(svg|gif|webp|png|jpg|jpeg)$/i, '')
stripExt(file) ==
  IF file # <<>> /\ file[Len(file)] \in Extensions
  THEN SubSeq(file, 1, Len(file) - 1)
  ELSE file

\* s.replace(/^[0-9A-F]+_/, ''): the longest run of hex digits, then '_'
stripHexPrefix(str) ==
  LET run == { n \in 1..Len(str) : \A i \in 1..n : IsHexDigit(str[i]) }
      cut == { n \in run : n < Len(str) /\ str[n + 1] = "_" }
  IN IF cut = {} THEN str
     ELSE LET n == CHOOSE m \in cut : \A k \in cut : k <= m
          IN SubSeq(str, n + 2, Len(str))

normalizeStation(str) == RemoveRadio(RemoveLeadingRadio(normalizeName(str)))
normalizeFile(file) == normalizeName(stripHexPrefix(stripExt(file)))
normalizeFileStrong(file) == normalizeStation(stripHexPrefix(stripExt(file)))
replaceAllSpaces(str) == SelectSeq(str, IsNotSpace)

(* ------------------------------- logos --------------------------------- *)
LogosPath == "/logos/"
RemoteLogosBase == "https://proxy.fm-tuner.ru/https://tef.noobish.eu/logos/"
DefaultLogoFile == "default-logo.png"
DefaultItu == "RUS"
NOPI == << "N", "O", "P", "I" >>

\* a value returned by findLogoUrl: the string (the sequence of its pieces),
\* or undefined; tier names the return statement that produced it
LogoResult(tier, defined, text, cache) ==
  [tier |-> tier, defined |-> defined, text |-> text, cache |-> cache]

\* getNoobishLogos(itu): the cached listing, or the fetched one, which it
\* caches ([] for a failed fetch)
getNoobishLogos(key, fetched) ==
  IF key \in DOMAIN noobishCache
  THEN [files |-> noobishCache[key], cache |-> noobishCache]
  ELSE [files |-> fetched,
        cache |-> [k \in DOMAIN noobishCache \cup { key } |->
                     IF k = key THEN fetched ELSE noobishCache[k]]]

\* tryFind(search, strongly) over Object.keys(localLogos): the index of the
\* key it returns the file of, 0 for null
tryFind(search, strongly) ==
  IF search = <<>> THEN 0
  ELSE
    LET searchNorm == normalizeName(search)
        strict == FirstIndex({ k \in 1..Len(localLogos) :
                    normalizeName(localLogos[k].key) = searchNorm })
        partial == FirstIndex({ k \in 1..Len(localLogos) :
                     LET localKeyNorm == normalizeName(localLogos[k].key)
                     IN Includes(localKeyNorm, searchNorm)
                          \/ Includes(searchNorm, localKeyNorm) })
    IN IF strict # 0 THEN strict
       ELSE IF strongly THEN partial
       ELSE 0

\* whether tryFind(search, true) returns from its strict loop
tryFindIsStrict(search) ==
  search # <<>>
    /\ \E k \in 1..Len(localLogos) :
         normalizeName(localLogos[k].key) = normalizeName(search)

stationNormsOf(st) ==
  LET sName == UpperCase(st.station)
      raw == { sName, replaceAllSpaces(sName), RemoveLeadingRadio(sName),
               replaceAllSpaces(RemoveLeadingRadio(sName)) } \ { <<>> }
  IN { normalizeStation(r) : r \in raw }

\* the part of findLogoUrl after the local catalog: the remote listing
findRemoteLogo(st, itu, listing) ==
  LET files == listing.files
      makeUrl(k) == << RemoteLogosBase, itu, "/" >> \o files[k]
      sName == UpperCase(st.station)
      piNorm == normalizePi(st.pi)
      piStation == piNorm \o << "_" >> \o replaceAllSpaces(sName)
      stationNorms == stationNormsOf(st)
      byPiStation == IF piNorm = <<>> THEN 0
                     ELSE FirstIndex({ k \in 1..Len(files) : stripExt(files[k]) = piStation })
      byPi == IF piNorm = <<>> THEN 0
              ELSE FirstIndex({ k \in 1..Len(files) : stripExt(files[k]) = piNorm })
      byName == FirstIndex({ k \in 1..Len(files) : normalizeFile(files[k]) \in stationNorms })
      byPartial == FirstIndex({ k \in 1..Len(files) :
                     \E n \in stationNorms :
                       /\ Len(n) >= 3
                       /\ \/ Includes(normalizeFile(files[k]), n)
                          \/ Includes(n, normalizeFile(files[k])) })
      byStrong == FirstIndex({ k \in 1..Len(files) :
                    \E n \in stationNorms :
                      \/ Includes(normalizeFileStrong(files[k]), n)
                      \/ Includes(n, normalizeFileStrong(files[k])) })
  IN IF files = <<>>
     THEN LogoResult("default", TRUE, << RemoteLogosBase, DefaultLogoFile >>, listing.cache)
     ELSE IF byPiStation # 0
     THEN LogoResult("remoteExact", TRUE, makeUrl(byPiStation), listing.cache)
     ELSE IF byPi # 0
     THEN LogoResult("remoteExact", TRUE, makeUrl(byPi), listing.cache)
     ELSE IF byName # 0
     THEN LogoResult("remoteExact", TRUE, makeUrl(byName), listing.cache)
     ELSE IF byPartial # 0
     THEN LogoResult("remotePartial", TRUE, makeUrl(byPartial), listing.cache)
     ELSE IF byStrong # 0
     THEN LogoResult("remotePartial", TRUE, makeUrl(byStrong), listing.cache)
     ELSE LogoResult("default", TRUE, << RemoteLogosBase, DefaultLogoFile >>, listing.cache)

\* findLogoUrl that asks the remote listing before the local catalog
findLogoUrl_RemoteFirst(st, fetched) ==
  LET itu == IF st.itu = "" THEN DefaultItu ELSE st.itu
      target == normalizeName(st.station)
      byTarget == tryFind(target, FALSE)
      usesPi == st.pi # <<>> /\ UpperCase(st.pi) # NOPI
      byPiLocal == IF usesPi THEN tryFind(st.pi, TRUE) ELSE 0
      remote == findRemoteLogo(st, itu, getNoobishLogos(itu, fetched))
  IN IF st.hasId /\ st.idStation \in DOMAIN logosCacheFMLIST
     THEN LogoResult("idmap", logosCacheFMLIST[st.idStation].hasLogoUrl,
                     logosCacheFMLIST[st.idStation].logoUrl, noobishCache)
     ELSE IF remote.tier # "default" THEN remote
     ELSE IF byTarget # 0
     THEN LogoResult("localExact", TRUE,
                     << LogosPath >> \o localLogos[byTarget].file, remote.cache)
     ELSE IF byPiLocal # 0
     THEN LogoResult(IF tryFindIsStrict(st.pi) THEN "localExact" ELSE "localPartial",
                     TRUE, << LogosPath >> \o localLogos[byPiLocal].file, remote.cache)
     ELSE remote

\* fetched is what the fetch of the country's listing gives if it is made
findLogoUrl(st, fetched) ==
  LET itu == IF st.itu = "" THEN DefaultItu ELSE st.itu
      target == normalizeName(st.station)
      byTarget == tryFind(target, FALSE)
      usesPi == st.pi # <<>> /\ UpperCase(st.pi) # NOPI
      byPiLocal == IF usesPi THEN tryFind(st.pi, TRUE) ELSE 0
  IN IF st.hasId /\ st.idStation \in DOMAIN logosCacheFMLIST
     THEN LogoResult("idmap", logosCacheFMLIST[st.idStation].hasLogoUrl,
                     logosCacheFMLIST[st.idStation].logoUrl, noobishCache)
     ELSE IF byTarget # 0
     THEN LogoResult("localExact", TRUE,
                     << LogosPath >> \o localLogos[byTarget].file, noobishCache)
     ELSE IF byPiLocal # 0
     THEN LogoResult(IF tryFindIsStrict(st.pi) THEN "localExact" ELSE "localPartial",
                     TRUE, << LogosPath >> \o localLogos[byPiLocal].file, noobishCache)
     ELSE findRemoteLogo(st, itu, getNoobishLogos(itu, fetched))

(* ----------------------- normalisation of inputs ----------------------- *)
\* frequencies are in kHz; FUndef stands for a value Number() does not
\* make finite, FNull for null (Number(null) is 0) and for the result null
LowBandMin == 65900
LowBandMax == 74000
LowBandStepKHz == 30
MainBandMax == 108000
MainBandStepKHz == 100

\* Math.round(khz / stepKHz) * stepKHz and the range test on the result
RoundToStep(khz, min, max, stepKHz) ==
  LET roundedKHz == ((2 * khz + stepKHz) \div (2 * stepKHz)) * stepKHz
  IN IF roundedKHz < min \/ roundedKHz > max THEN FNull ELSE roundedKHz

normalizeFreq(n) ==
  IF n = FUndef THEN FNull
  ELSE IF n >= LowBandMin /\ n <= LowBandMax
  THEN RoundToStep(n, LowBandMin, LowBandMax, LowBandStepKHz)
  ELSE IF n > LowBandMax /\ n <= MainBandMax
  THEN RoundToStep(n, LowBandMax, MainBandMax, MainBandStepKHz)
  ELSE IF n = LowBandMax
  THEN RoundToStep(n, LowBandMax, MainBandMax, MainBandStepKHz)
  ELSE FNull

\* raw values around both bands and their ends, every 5 kHz, and far off
FreqInputs ==
  { k \in 65800..74200 : k % 5 = 0 }
  \cup { k \in 87900..88100 : k % 5 = 0 }
  \cup { k \in 107900..108100 : k % 5 = 0 }
  \cup { FUndef, FNull, 50000, 120000 }

InitFreq ==
  /\ MonitorInit
  /\ cfgFile = CfgA
  /\ DataInit
  /\ \E f \in FreqInputs :
       call = [fn |-> "normalizeFreq", args |-> [f |-> f], done |-> FALSE,
               result |-> <<>>]

\* normalizeFreq(st.freq) on a raw value
NormalizeRaw ==
  /\ call.fn = "normalizeFreq"
  /\ call.result = <<>>
  /\ call' = [call EXCEPT !.result = << normalizeFreq(call.args.f) >>]
  /\ UNCHANGED monitorVars
  /\ UNCHANGED << locationsCache, locationsCacheFMLIST, logosCacheFMLIST,
                  localLogos, noobishCache >>

\* normalizeFreq(freq) on a value normalizeFreq returned (the freq of a
\* record is normalised again when the record is searched for)
NormalizeAgain ==
  /\ call.fn = "normalizeFreq"
  /\ Len(call.result) = 1
  /\ call.result[1] # FNull
  /\ call' = [call EXCEPT !.done = TRUE,
                          !.result = Append(@, normalizeFreq(call.result[1]))]
  /\ UNCHANGED monitorVars
  /\ UNCHANGED << locationsCache, locationsCacheFMLIST, logosCacheFMLIST,
                  localLogos, noobishCache >>

NextFreq == NormalizeRaw \/ NormalizeAgain

SpecFreq == InitFreq /\ [][NextFreq]_vars

(* ---------------------------- logos, called ---------------------------- *)
MaxLocalLogos == 2
MaxRemoteFiles == 2

StationNames == { << "R", "a", "d", "i", "o", " ", "A", "B" >>, << "A", "b", "c", " ", "x" >>, << "R", "a", "d", "i", "o" >> }
StationPis == { <<>>, << "1", "2", "a", "b" >>, << "n", "o", "P", "I" >> }
NoId == 0
KnownId == 7

LogoCandidates ==
  { [station |-> n, pi |-> p, itu |-> "", hasId |-> h, idStation |-> i] :
      n \in StationNames, p \in StationPis,
      h \in BOOLEAN, i \in { NoId, KnownId } }
  \ { [station |-> n, pi |-> p, itu |-> "", hasId |-> FALSE, idStation |-> KnownId] :
        n \in StationNames, p \in StationPis }

\* the catalog-id mapping: not loaded, an entry with a logoUrl, an entry
\* without one
IdMaps ==
  { <<>>,
    [i \in { KnownId } |-> [hasLogoUrl |-> TRUE, logoUrl |-> << "https://fmlist.ru/logos/", "7", ".png" >>]],
    [i \in { KnownId } |-> [hasLogoUrl |-> FALSE, logoUrl |-> <<>>]] }

LocalLogoEntries ==
  { [key |-> << "A", "B" >>, file |-> << "a", "b", ".png" >>],
    [key |-> << "1", "2", "A", "B" >>, file |-> << "1", "2", "A", "B", ".png" >>],
    [key |-> << "X", "1", "2", "A", "B", "X" >>, file |-> << "x", "1", "2", "a", "b", "x", ".svg" >>] }

RemoteFiles ==
  { << "1", "2", "A", "B", "_", "R", "A", "D", "I", "O", "A", "B", ".png" >>,
    << "A", "B", ".png" >>,
    << "A", "B", "C", "X", "D", ".gif" >>,
    << "7", "_", "X", "A", "B", "X", ".png" >> }

\* the sequences without repetition of at most n elements of S
Listings(S, n) ==
  { l \in UNION { [1..k -> S] : k \in 0..n } :
      \A i, j \in DOMAIN l : i # j => l[i] # l[j] }

\* the country listing is not cached, cached empty or cached
NoobishCaches ==
  { <<>>,
    [k \in { DefaultItu } |-> <<>>],
    [k \in { DefaultItu } |-> << << "A", "B", ".png" >> >>] }

LocalCatalogs == Listings(LocalLogoEntries, MaxLocalLogos)
RemoteListings == Listings(RemoteFiles, MaxRemoteFiles)

InitLogo ==
  /\ MonitorInit
  /\ cfgFile = CfgA
  /\ locationsCache = <<>>
  /\ locationsCacheFMLIST = <<>>
  /\ logosCacheFMLIST \in IdMaps
  /\ localLogos \in LocalCatalogs
  /\ noobishCache \in NoobishCaches
  /\ \E st \in LogoCandidates :
       call = [fn |-> "findLogoUrl", args |-> [st |-> st], done |-> FALSE,
               result |-> <<>>]

\* whether findLogoUrl(st) fetches the listing of a country
FetchesListing(st) == findLogoUrl(st, <<>>).cache # noobishCache

\* r.logoUrl = await findLogoUrl(r); a fetch that is not made has no outcome
ResolveLogo(fetched) ==
  /\ call.fn = "findLogoUrl"
  /\ ~call.done
  /\ fetched # <<>> => FetchesListing(call.args.st)
  /\ LET r == findLogoUrl(call.args.st, fetched)
     IN /\ call' = [call EXCEPT !.done = TRUE, !.result = << r >>]
        /\ noobishCache' = r.cache
  /\ UNCHANGED monitorVars
  /\ UNCHANGED << locationsCache, locationsCacheFMLIST, logosCacheFMLIST, localLogos >>

NextLogo == \E fetched \in RemoteListings : ResolveLogo(fetched)

SpecLogo == InitLogo /\ [][NextLogo]_vars

(* ------------------------------- search -------------------------------- *)
\* distances are in tenths of a kilometre; DistNaN is NaN, which haversine
\* returns for a coordinate Number() does not make a number
DistNaN == -1
DefaultMaxDistanceKm == 500
TenthsPerKm == 10
Unknown == << "U", "n", "k", "n", "o", "w", "n" >>

\* haversine(qthLat, qthLon, Number(loc.lat), Number(loc.lon)) for the
\* coordinates of the datasets used here
haversine(latlon) ==
  CASE latlon = "11.6km" -> 116
    [] latlon = "12.4km" -> 124
    [] latlon = "500.0km" -> 5000
    [] OTHER -> DistNaN

\* angles are in tenths of a degree; toDeg(Math.atan2(y, x)) of bearing for
\* the same coordinates, in (-180, 180]: north-east, west, a little west of
\* north
AngleNaN == -10000
TenthsPerDegree == 10
FullTurn == 360
atan2Deg(latlon) ==
  CASE latlon = "11.6km" -> 450
    [] latlon = "12.4km" -> -900
    [] latlon = "500.0km" -> -4
    [] OTHER -> AngleNaN

\* bearing(qthLat, qthLon, Number(loc.lat), Number(loc.lon)):
\* (toDeg(Math.atan2(y, x)) + 360) % 360
bearing(latlon) ==
  IF atan2Deg(latlon) = AngleNaN THEN AngleNaN
  ELSE (atan2Deg(latlon) + FullTurn * TenthsPerDegree) % (FullTurn * TenthsPerDegree)

\* Math.round(az), in whole degrees
MathRoundDegrees(az) ==
  IF az = AngleNaN THEN AngleNaN
  ELSE (2 * az + TenthsPerDegree) \div (2 * TenthsPerDegree)

\* d > maxD in JavaScript: false when d is NaN
GreaterThan(d, maxD) == d # DistNaN /\ d > maxD * TenthsPerKm

\* Math.round on a distance, to whole kilometres
MathRound(d) ==
  IF d = DistNaN THEN DistNaN
  ELSE ((2 * d + TenthsPerKm) \div (2 * TenthsPerKm)) * TenthsPerKm

\* Number(pluginConfig.maxDistanceKm || 500)
maxDistanceOf(pluginConfig) ==
  IF pluginConfig.maxDistanceKm = 0 THEN DefaultMaxDistanceKm
  ELSE pluginConfig.maxDistanceKm

\* str.replace('R.', 'Radio '): the first occurrence
RECURSIVE replaceRDot(_)
replaceRDot(str) ==
  IF str = <<>> THEN <<>>
  ELSE IF StartsWith(str, << "R", "." >>)
  THEN << "R", "a", "d", "i", "o", " " >> \o SubSeq(str, 3, Len(str))
  ELSE << Head(str) >> \o replaceRDot(Tail(str))

\* src tells where a record comes from: the dataset, the location and the
\* station in it
buildRecordFromLocStation(loc, st, src) ==
  [freq |-> normalizeFreq(st.freq),
   station |-> replaceRDot(IF st.station = <<>> THEN Unknown ELSE st.station),
   itu |-> loc.itu,
   distance |-> MathRound(haversine(loc.latlon)),
   azimuth |-> MathRoundDegrees(bearing(loc.latlon)),
   pi |-> st.pi,
   hasId |-> TRUE,
   idStation |-> st.idStation,
   logoUrl |-> <<>>,
   src |-> src]

\* st.pi || 'noPI' in the pass over the secondary dataset
MissingPi == << "n", "o", "P", "I" >>

\* the two nested loops of searchInMaps over one dataset, from location l;
\* missingPi is what stands for the identifier of a station that has none
RECURSIVE collectMatches(_, _, _, _, _, _, _)
collectMatches(dataset, name, missingPi, l, f, p, maxD) ==
  IF l > Len(dataset) THEN <<>>
  ELSE
    LET loc == dataset[l]
        matches(j) ==
          LET st == loc.stations[j]
          IN /\ ~st.inactive
             /\ ~(f # FNull /\ normalizeFreq(st.freq) # f)
             /\ ~(p # <<>> /\
                    normalizePi(IF st.pi = <<>> THEN missingPi ELSE st.pi) # p)
        js == SelectSeq([j \in 1..Len(loc.stations) |-> j], matches)
        here == IF GreaterThan(haversine(loc.latlon), maxD) THEN <<>>
                ELSE [k \in 1..Len(js) |->
                        buildRecordFromLocStation(loc, loc.stations[js[k]],
                          [set |-> name, loc |-> l, st |-> js[k]])]
    IN here \o collectMatches(dataset, name, missingPi, l + 1, f, p, maxD)

\* result.sort((a, b) => Number(a.distance) - Number(b.distance)): a stable
\* sort; with a NaN distance the comparator is inconsistent and the order
\* is whatever the engine leaves
RECURSIVE stableSort(_)
stableSort(list) ==
  IF list = <<>> THEN <<>>
  ELSE
    LET x == list[Len(list)]
        front == stableSort(SubSeq(list, 1, Len(list) - 1))
        n == Cardinality({ i \in 1..Len(front) : front[i].distance <= x.distance })
    IN SubSeq(front, 1, n) \o << x >> \o SubSeq(front, n + 1, Len(front))

Arrangements(list) ==
  { [i \in 1..Len(list) |-> list[q[i]]] :
      q \in { r \in [1..Len(list) -> 1..Len(list)] :
                \A i, j \in 1..Len(list) : i # j => r[i] # r[j] } }

sortOutcomes(list) ==
  IF \E i \in 1..Len(list) : list[i].distance = DistNaN
  THEN Arrangements(list)
  ELSE { stableSort(list) }

\* for (const r of list) if (!r.logoUrl) r.logoUrl = await findLogoUrl(r);
\* all records of a search are of one country here, so at most one listing
\* is fetched
annotateLogos(list, fetched) ==
  LET needs(i) == list[i].logoUrl = <<>>
      logo(i) == findLogoUrl(list[i], fetched)
      made == { i \in 1..Len(list) : needs(i) /\ logo(i).cache # noobishCache }
  IN [list |-> [i \in 1..Len(list) |->
                  IF needs(i)
                  THEN [list[i] EXCEPT !.logoUrl = << logo(i).text >>]
                  ELSE list[i]],
      cache |-> IF made = {} THEN noobishCache
                ELSE logo(CHOOSE i \in made : TRUE).cache]

\* one pass of searchInMaps over a dataset: the outcomes of the sort
searchDataset(dataset, name, missingPi, f, p, maxD, fetched) ==
  { annotateLogos(sorted, fetched) :
      sorted \in sortOutcomes(collectMatches(dataset, name, missingPi, 1, f, p, maxD)) }

\* searchInMaps that appends the secondary dataset's matches
searchInMaps_Merges(freq, pi, fetched) ==
  LET f == normalizeFreq(freq)
      p == normalizePi(pi)
      maxD == maxDistanceOf(cfgFile)
  IN IF f = FNull /\ p = <<>>
     THEN { [list |-> <<>>, cache |-> noobishCache, consulted |-> {}] }
     ELSE
       { [list |-> r.list \o r2.list, cache |-> r2.cache,
          consulted |-> { "primary", "secondary" }] :
           r \in searchDataset(locationsCache, "primary", <<>>, f, p, maxD, fetched),
           r2 \in searchDataset(locationsCacheFMLIST, "secondary", MissingPi, f, p, maxD, fetched) }

\* the possible results of searchInMaps(freq, pi), with the datasets read
searchInMaps(freq, pi, fetched) ==
  LET f == normalizeFreq(freq)
      p == normalizePi(pi)
      maxD == maxDistanceOf(cfgFile)
  IN IF f = FNull /\ p = <<>>
     THEN { [list |-> <<>>, cache |-> noobishCache, consulted |-> {}] }
     ELSE
       LET first == searchDataset(locationsCache, "primary", <<>>, f, p, maxD, fetched)
       IN IF \E r \in first : r.list # <<>>
          THEN { [list |-> r.list, cache |-> r.cache, consulted |-> { "primary" }] :
                   r \in first }
          ELSE { [list |-> r.list, cache |-> r.cache,
                  consulted |-> { "primary", "secondary" }] :
                   r \in searchDataset(locationsCacheFMLIST, "secondary", MissingPi, f, p,
                                       maxD, fetched) }

\* the result of searchInMyStations(freq, pi, ant)
searchInMyStations(freq, pi, ant, fetched) ==
  LET f == normalizeFreq(freq)
      p == normalizePi(pi)
      list == cfgFile.myStantions
      keep(j) ==
        /\ ~(f # FNull /\ normalizeFreq(list[j].freq) # f)
        /\ ~(list[j].hasAntenna /\ ant # list[j].antenna)
      js == SelectSeq([j \in 1..Len(list) |-> j], keep)
      filtered ==
        [k \in 1..Len(js) |->
           LET s == list[js[k]]
           IN [freq |-> normalizeFreq(s.freq),
               station |-> IF s.station = <<>> THEN Unknown ELSE s.station,
               itu |-> s.itu,
               distance |-> IF s.distance = DistNaN THEN 0 ELSE s.distance,
               pi |-> IF s.pi # <<>> THEN s.pi ELSE pi,
               hasId |-> FALSE,
               idStation |-> NoId,
               logoUrl |-> s.logoUrl,
               src |-> [set |-> "user", loc |-> 0, st |-> js[k]]]]
  IN IF f = FNull /\ p = <<>>
     THEN [list |-> <<>>, cache |-> noobishCache, consulted |-> {}]
     ELSE LET r == annotateLogos(stableSort(filtered), fetched)
          IN [list |-> r.list, cache |-> r.cache, consulted |-> { "user" }]

\* mode 3 that searches the datasets whatever the user list gives
searchStations_Mode3AlwaysMaps(freq, pi, ant, fetched) ==
  IF cfgFile.mode = 2 THEN { searchInMyStations(freq, pi, ant, fetched) }
  ELSE IF cfgFile.mode = 3
  THEN LET first == searchInMyStations(freq, pi, ant, fetched)
       IN { [r EXCEPT !.consulted = @ \cup first.consulted] :
              r \in searchInMaps(freq, pi, fetched) }
  ELSE searchInMaps(freq, pi, fetched)

\* the possible results of searchStations(freq, pi, ant)
searchStations(freq, pi, ant, fetched) ==
  IF cfgFile.mode = 2 THEN { searchInMyStations(freq, pi, ant, fetched) }
  ELSE IF cfgFile.mode = 3
  THEN LET first == searchInMyStations(freq, pi, ant, fetched)
       IN IF first.list # <<>> THEN { first }
          ELSE { [r EXCEPT !.consulted = @ \cup first.consulted] :
                   r \in searchInMaps(freq, pi, fetched) }
  ELSE searchInMaps(freq, pi, fetched)

(* ---------------------------- search, called --------------------------- *)
MaxLocations == 3
MaxUserStations == 2

SearchStation(freq, pi, inactive) ==
  [freq |-> freq, station |-> << "R", ".", "A", "B" >>, pi |-> pi,
   inactive |-> inactive, idStation |-> NoId]

SearchLocation(latlon, stations) ==
  [latlon |-> latlon, itu |-> "", stations |-> stations]

Pi12ab == << "1", "2", "a", "b" >>

\* two locations that round to the same distance, the second beyond a
\* radius of 12 km, one at the limit of the default radius, one whose
\* coordinate is not a number
PrimaryLocations ==
  { SearchLocation("11.6km", << SearchStation(88040, Pi12ab, FALSE),
                                SearchStation(88000, Pi12ab, TRUE) >>),
    SearchLocation("12.4km", << SearchStation(88000, <<>>, FALSE) >>),
    SearchLocation("500.0km", << SearchStation(91000, Pi12ab, FALSE),
                                 SearchStation(88000, Pi12ab, FALSE) >>),
    SearchLocation("none", << SearchStation(88000, <<>>, FALSE) >>) }

SecondaryLocations ==
  { SearchLocation("12.4km", << SearchStation(88000, <<>>, FALSE),
                                SearchStation(91000, Pi12ab, FALSE) >>),
    SearchLocation("none", << SearchStation(88000, Pi12ab, FALSE) >>) }

UserStation(freq, distance, hasAntenna, antenna, logoUrl) ==
  [freq |-> freq, station |-> << "A", "B" >>, itu |-> "", distance |-> distance,
   hasAntenna |-> hasAntenna, antenna |-> antenna, pi |-> <<>>,
   logoUrl |-> logoUrl]

UserStations ==
  { UserStation(88000, 300, TRUE, 0, << << "m", "y", ".png" >> >>),
    UserStation(88040, 100, FALSE, 0, <<>>),
    [UserStation(91000, 100, TRUE, 1, <<>>) EXCEPT !.pi = << "3", "4", "c", "d" >>],
    UserStation(88000, DistNaN, FALSE, 0, <<>>) }

SearchConfig(mode, maxDistanceKm, myStantions) ==
  [thresholdSignal |-> CfgA.thresholdSignal, stableTime |-> CfgA.stableTime,
   mode |-> mode, maxDistanceKm |-> maxDistanceKm, myStantions |-> myStantions]

SearchModes == { 1, 2, 3 }
SearchRadii == { 0, 12 }

\* the queries: a frequency on a grid with and without an identifier and
\* an antenna, an identifier alone, nothing usable
SearchQueries ==
  { [freq |-> 88000, pi |-> <<>>, ant |-> 0],
    [freq |-> 88000, pi |-> Pi12ab, ant |-> 0],
    [freq |-> 88000, pi |-> << "?" >>, ant |-> 1],
    [freq |-> 50000, pi |-> Pi12ab, ant |-> 1],
    [freq |-> 50000, pi |-> <<>>, ant |-> 0] }

PrimaryDatasets == Listings(PrimaryLocations, MaxLocations)
SecondaryDatasets == Listings(SecondaryLocations, MaxLocations)
UserLists == Listings(UserStations, MaxUserStations)

SearchFetches == { <<>>, << << "A", "B", ".png" >> >> }

\* the datasets vary with an empty user list, the user list varies over a
\* dataset of one location
InitSearch ==
  /\ MonitorInit
  /\ logosCacheFMLIST = <<>>
  /\ localLogos = <<>>
  /\ noobishCache = <<>>
  /\ \/ /\ locationsCache \in PrimaryDatasets
        /\ locationsCacheFMLIST \in SecondaryDatasets
        /\ cfgFile \in { SearchConfig(1, d, <<>>) : d \in SearchRadii }
     \/ /\ locationsCache \in { l \in PrimaryDatasets : Len(l) = 1 }
        /\ locationsCacheFMLIST = <<>>
        /\ cfgFile \in { SearchConfig(m, 0, u) : m \in SearchModes, u \in UserLists }
  /\ \E q \in SearchQueries :
       call = [fn |-> "searchStations", args |-> q, done |-> FALSE, result |-> <<>>]

\* const list = await searchStations(freq, pi, ant); a fetch that is not
\* made has no outcome
Search(fetched) ==
  /\ call.fn = "searchStations"
  /\ ~call.done
  /\ \E r \in searchStations(call.args.freq, call.args.pi, call.args.ant, fetched) :
       /\ fetched # <<>> =>
            r.cache # noobishCache
       /\ call' = [call EXCEPT !.done = TRUE,
                     !.result = << [list |-> r.list, consulted |-> r.consulted] >>]
       /\ noobishCache' = r.cache
  /\ UNCHANGED monitorVars
  /\ UNCHANGED << locationsCache, locationsCacheFMLIST, logosCacheFMLIST, localLogos >>

NextSearch == \E fetched \in SearchFetches : Search(fetched)

SpecSearch == InitSearch /\ [][NextSearch]_vars

(* ------------------ the country listing, called concurrently ----------- *)
MaxResolutions == 3

\* String(itu || '').toUpperCase() of the callers
CountryKeys == { "", "RUS", "POL" }

\* what the fetch of a listing gives: a response that is not ok, an
\* exception, a page with no file, a page with a file
FetchOutcomes ==
  { [kind |-> "notOk", files |-> <<>>],
    [kind |-> "throws", files |-> <<>>],
    [kind |-> "ok", files |-> <<>>],
    [kind |-> "ok", files |-> << << "A", "B", ".png" >> >>] }

\* the calls of getNoobishLogos of the searches that run at the same time,
\* each before its first statement; fetches counts the requests sent
InitNoobish ==
  /\ MonitorInit
  /\ cfgFile = CfgA
  /\ locationsCache = <<>>
  /\ locationsCacheFMLIST = <<>>
  /\ logosCacheFMLIST = <<>>
  /\ localLogos = <<>>
  /\ noobishCache = <<>>
  /\ \E keys \in [1..MaxResolutions -> CountryKeys] :
       call = [fn |-> "getNoobishLogos",
               args |-> keys,
               done |-> FALSE,
               result |-> [p \in 1..MaxResolutions |-> [pc |-> "start", files |-> <<>>]],
               fetches |-> [k \in CountryKeys |-> 0]]

\* getNoobishLogos down to `await fetch(url)`: the two early returns, or the
\* request is sent
GetNoobishLogosBegin(p) ==
  /\ call.fn = "getNoobishLogos"
  /\ call.result[p].pc = "start"
  /\ LET key == call.args[p]
     IN IF key = ""
        THEN call' = [call EXCEPT !.result[p] = [pc |-> "returned", files |-> <<>>]]
        ELSE IF key \in DOMAIN noobishCache
        THEN call' = [call EXCEPT !.result[p] =
                        [pc |-> "returned", files |-> noobishCache[key]]]
        ELSE call' = [call EXCEPT !.result[p].pc = "fetching",
                                  !.fetches[key] = @ + 1]
  /\ UNCHANGED monitorVars
  /\ UNCHANGED << locationsCache, locationsCacheFMLIST, logosCacheFMLIST, localLogos,
                  noobishCache >>

\* getNoobishLogos from the settlement of the fetch: the listing, or [] for
\* a response that is not ok and for an exception, is cached and returned
GetNoobishLogosSettle(p, outcome) ==
  /\ call.fn = "getNoobishLogos"
  /\ call.result[p].pc = "fetching"
  /\ LET key == call.args[p]
         files == IF outcome.kind = "ok" THEN outcome.files ELSE <<>>
     IN /\ noobishCache' = [k \in DOMAIN noobishCache \cup { key } |->
                              IF k = key THEN files ELSE noobishCache[k]]
        /\ call' = [call EXCEPT !.result[p] = [pc |-> "returned", files |-> files]]
  /\ UNCHANGED monitorVars
  /\ UNCHANGED << locationsCache, locationsCacheFMLIST, logosCacheFMLIST, localLogos >>

NextNoobish ==
  \E p \in 1..MaxResolutions :
    \/ GetNoobishLogosBegin(p)
    \/ \E outcome \in FetchOutcomes : GetNoobishLogosSettle(p, outcome)

SpecNoobish == InitNoobish /\ [][NextNoobish]_vars

(* --------------------------- dataset loading --------------------------- *)
MaxLoads == 1

\* what can come back for one of the three requests: fetch rejects, the
\* status is not ok, the body is not JSON, the body is the JSON null, the
\* body is an object without the expected member, the body is as expected
LoadFailures == { "networkError", "notOk", "notJson", "jsonNull" }
LoadKinds == LoadFailures \cup { "noLocations", "ok" }

LocationPayloads ==
  { [kind |-> k, value |-> <<>>] : k \in LoadKinds \ { "ok" } }
  \cup { [kind |-> "ok", value |-> << l >>] : l \in SecondaryLocations }

\* the body of logos/index.json is taken whole: "noLocations" is an object
\* with no entry
LogoPayloads ==
  { [kind |-> k, value |-> <<>>] : k \in LoadKinds \ { "ok" } }
  \cup { [kind |-> "ok", value |-> m] : m \in IdMaps \ { <<>> } }

\* locationsCache = Object.values(json.locations || {}) inside try: the
\* assignment is not reached when fetch, the status test, res.json() or
\* json.locations throws
loadLocations(previous, payload) ==
  IF payload.kind \in LoadFailures THEN previous
  ELSE payload.value

\* logosCacheFMLIST = json inside try, then Object.keys(logosCacheFMLIST)
\* for the log line: for the JSON null the assignment is made and the log
\* line throws. null is the mapping without entry, which is what
\* logosCacheFMLIST?.[id] makes of it
loadLogos(previous, payload) ==
  IF payload.kind \in { "networkError", "notOk", "notJson" } THEN previous
  ELSE payload.value

\* the caches hold what an earlier load left; a load is about to run, with
\* or without QTH coordinates in the configuration
InitLoad ==
  /\ MonitorInit
  /\ cfgFile = CfgA
  /\ locationsCache \in { <<>> } \cup { << l >> : l \in SecondaryLocations }
  /\ locationsCacheFMLIST \in { <<>> } \cup { << l >> : l \in SecondaryLocations }
  /\ logosCacheFMLIST \in IdMaps
  /\ localLogos = <<>>
  /\ noobishCache = <<>>
  /\ \E qth \in BOOLEAN :
       call = [fn |-> "loadStationsFromMaps", args |-> [qth |-> qth], done |-> FALSE,
               result |-> <<>>, loads |-> 0]

\* loadStationsFromMaps(): the three requests, each in its own try; thrown
\* tells whether the call rejects
LoadStationsFromMaps(maps, fmlist, logos) ==
  /\ call.fn = "loadStationsFromMaps"
  /\ call.loads < MaxLoads
  /\ IF ~call.args.qth
     THEN /\ call' = [call EXCEPT !.done = TRUE, !.loads = @ + 1,
                        !.result = << [skipped |-> TRUE, thrown |-> FALSE,
                                       maps |-> maps, fmlist |-> fmlist,
                                       logos |-> logos] >>]
          /\ UNCHANGED << locationsCache, locationsCacheFMLIST, logosCacheFMLIST >>
     ELSE /\ locationsCache' = loadLocations(locationsCache, maps)
          /\ locationsCacheFMLIST' = loadLocations(locationsCacheFMLIST, fmlist)
          /\ logosCacheFMLIST' = loadLogos(logosCacheFMLIST, logos)
          /\ call' = [call EXCEPT !.done = TRUE, !.loads = @ + 1,
                        !.result = << [skipped |-> FALSE, thrown |-> FALSE,
                                       maps |-> maps, fmlist |-> fmlist,
                                       logos |-> logos] >>]
  /\ UNCHANGED monitorVars
  /\ UNCHANGED << localLogos, noobishCache >>

NextLoad ==
  \E maps, fmlist \in LocationPayloads, logos \in LogoPayloads :
    LoadStationsFromMaps(maps, fmlist, logos)

SpecLoad == InitLoad /\ [][NextLoad]_vars

(* ----------------------- the find request/response --------------------- *)
MaxFinds == 4
MaxFindTime == 180000

ProcessedTtlMs == 120000
GcPeriodMs == 30000
NoRequestId == 0
RequestIds == { NoRequestId, 1, 2 }

\* processedRequests.has(requestId) that never finds the entry
alreadyProcessed_Never(processed, requestId) == FALSE

\* processedRequests.has(requestId)
alreadyProcessed(processed, requestId) == requestId \in DOMAIN processed

\* gcProcessed(): the entries that stay
gcProcessed(processed, t) ==
  [k \in { i \in DOMAIN processed : ~(t - processed[i] > ProcessedTtlMs) } |->
     processed[k]]

\* the server has started: no request is remembered, the first run of the
\* collector is one period away. received, first, last, sent and
\* repeatedInFlight are the history of each request id
InitFind ==
  /\ MonitorInit
  /\ cfgFile = CfgA
  /\ DataInit
  /\ call = [fn |-> "find", args |-> <<>>, done |-> FALSE, result |-> <<>>,
             clock |-> 0,
             gcRanAt |-> 0,
             processedRequests |-> <<>>,
             searching |-> <<>>,
             finds |-> 0,
             received |-> [i \in RequestIds |-> 0],
             first |-> [i \in RequestIds |-> 0],
             last |-> [i \in RequestIds |-> 0],
             sent |-> [i \in RequestIds |-> 0],
             repeatedInFlight |-> [i \in RequestIds |-> FALSE]]

FindUnchanged ==
  /\ UNCHANGED monitorVars
  /\ UNCHANGED << locationsCache, locationsCacheFMLIST, logosCacheFMLIST, localLogos,
                  noobishCache >>

InSearch(requestId) == \E i \in 1..Len(call.searching) : call.searching[i] = requestId

\* wsData.onmessage for { action: 'find', requestId } down to
\* `await searchStations(freq)`
DataFind(requestId) ==
  /\ call.fn = "find"
  /\ call.finds < MaxFinds
  /\ LET seen == [call EXCEPT
                    !.finds = @ + 1,
                    !.received[requestId] = @ + 1,
                    !.first[requestId] =
                       IF call.received[requestId] = 0 THEN call.clock ELSE @,
                    !.last[requestId] = call.clock,
                    !.repeatedInFlight[requestId] = @ \/ InSearch(requestId)]
     IN IF requestId = NoRequestId THEN call' = seen
        ELSE IF alreadyProcessed(call.processedRequests, requestId) THEN call' = seen
        ELSE call' = [seen EXCEPT
                        !.processedRequests =
                           [k \in DOMAIN call.processedRequests \cup { requestId } |->
                              IF k = requestId THEN call.clock
                              ELSE call.processedRequests[k]],
                        !.searching = Append(@, requestId)]
  /\ FindUnchanged

\* the rest of the handler, when the search i has resolved: the response
FindRespond(i) ==
  /\ call.fn = "find"
  /\ i \in 1..Len(call.searching)
  /\ call' = [call EXCEPT
                !.sent[call.searching[i]] = @ + 1,
                !.searching = SubSeq(@, 1, i - 1) \o SubSeq(@, i + 1, Len(@))]
  /\ FindUnchanged

\* setInterval(gcProcessed, 30 * 1000)
GcDue == call.clock > 0 /\ call.clock % GcPeriodMs = 0 /\ call.gcRanAt # call.clock

GcProcessedFire ==
  /\ call.fn = "find"
  /\ GcDue
  /\ call' = [call EXCEPT
                !.gcRanAt = call.clock,
                !.processedRequests = gcProcessed(@, call.clock)]
  /\ FindUnchanged

FindTick ==
  /\ call.fn = "find"
  /\ ~GcDue
  /\ call.clock + GcPeriodMs <= MaxFindTime
  /\ call' = [call EXCEPT !.clock = @ + GcPeriodMs]
  /\ FindUnchanged

NextFind ==
  \/ \E requestId \in RequestIds : DataFind(requestId)
  \/ \E i \in 1..MaxFinds : FindRespond(i)
  \/ GcProcessedFire
  \/ FindTick

SpecFind == InitFind /\ [][NextFind]_vars

(* ---------------------------- the subscriber --------------------------- *)
MaxCandidates == 2

\* candidates as the page uses them: a name and a logo, or no logo
Candidates ==
  { [station |-> "A", logoUrl |-> << "a", ".png" >>],
    [station |-> "B", logoUrl |-> <<>>],
    [station |-> "C", logoUrl |-> << "c", ".png" >>] }

\* v.list of a push: an array of candidates, or something that is no array
NotAnArray == [isArray |-> FALSE, items |-> <<>>]
PushedLists ==
  { [isArray |-> TRUE, items |-> l] : l \in Listings(Candidates, MaxCandidates) }
  \cup { NotAnArray }

\* hashCandidates(list): stableStringify writes the members of a record in
\* the order of their names, so the text is the same exactly for equal lists
NoHash == [isNull |-> TRUE, text |-> <<>>]
hashCandidates(list) == [isNull |-> FALSE, text |-> list]

\* the page after the script has run down to connectDataWS(): ui is the
\* state of the script and of the elements it writes, step the last event
ClientStart ==
  [lastCandidatesHash |-> NoHash,
   lastCandidatesLength |-> 0,
   currentCandidates |-> <<>>,
   currentCandidateIndex |-> 0,
   container |-> "none",
   logo |-> "initial",
   logoOriginal |-> "shown",
   stationsOverlay |-> FALSE]

\* hideNoRdsUI() that leaves the container as it is
hideNoRdsUI_LeavesContainer(ui) ==
  [ui EXCEPT !.logoOriginal = "shown",
             !.logo = "none",
             !.currentCandidates = <<>>,
             !.currentCandidateIndex = 0]

hideNoRdsUI(ui) ==
  [ui EXCEPT !.logoOriginal = "shown",
             !.logo = "none",
             !.container = "none",
             !.currentCandidates = <<>>,
             !.currentCandidateIndex = 0]

\* renderCandidate(index); indexes are those of the script, from 0
renderCandidate(ui, index) ==
  IF index >= Len(ui.currentCandidates) THEN ui
  ELSE LET c == ui.currentCandidates[index + 1]
       IN IF c.logoUrl # <<>>
          THEN [ui EXCEPT !.logo = "shown", !.logoOriginal = "none",
                          !.container = "block"]
          ELSE [ui EXCEPT !.logoOriginal = "shown", !.container = "block"]

\* showCandidates that keeps the selected index whatever the new length
showCandidates_KeepsIndex(ui, list, isServer) ==
  LET candidates == IF list.isArray THEN list.items ELSE <<>>
      newHash == hashCandidates(candidates)
  IN IF newHash = ui.lastCandidatesHash /\ Len(candidates) = ui.lastCandidatesLength
     THEN ui
     ELSE
       LET stored == [ui EXCEPT
                        !.lastCandidatesHash = newHash,
                        !.lastCandidatesLength = Len(candidates),
                        !.currentCandidates = candidates]
       IN IF Len(candidates) = 0 THEN hideNoRdsUI(stored)
          ELSE IF isServer
          THEN hideNoRdsUI([stored EXCEPT !.container = "none"])
          ELSE renderCandidate([stored EXCEPT !.container = "block"],
                               stored.currentCandidateIndex)

showCandidates(ui, list, isServer) ==
  LET candidates == IF list.isArray THEN list.items ELSE <<>>
      newHash == hashCandidates(candidates)
  IN IF newHash = ui.lastCandidatesHash /\ Len(candidates) = ui.lastCandidatesLength
     THEN ui
     ELSE
       LET stored == [ui EXCEPT
                        !.lastCandidatesHash = newHash,
                        !.lastCandidatesLength = Len(candidates),
                        !.currentCandidates = candidates,
                        !.currentCandidateIndex =
                           IF @ >= Len(candidates) THEN 0 ELSE @]
       IN IF Len(candidates) = 0 THEN hideNoRdsUI(stored)
          ELSE IF isServer
          THEN hideNoRdsUI([stored EXCEPT !.container = "none"])
          ELSE renderCandidate([stored EXCEPT !.container = "block"],
                               stored.currentCandidateIndex)

switchCandidate(ui, dir) ==
  IF Len(ui.currentCandidates) <= 1 THEN ui
  ELSE LET index == (ui.currentCandidateIndex + dir + Len(ui.currentCandidates))
                      % Len(ui.currentCandidates)
       IN renderCandidate([ui EXCEPT !.currentCandidateIndex = index], index)

InitClient ==
  /\ MonitorInit
  /\ cfgFile = CfgA
  /\ DataInit
  /\ call = [fn |-> "subscriber", args |-> <<>>, done |-> FALSE, result |-> <<>>,
             ui |-> ClientStart,
             step |-> [kind |-> "start", list |-> NotAnArray, before |-> ClientStart]]

ClientUnchanged ==
  /\ UNCHANGED monitorVars
  /\ UNCHANGED << locationsCache, locationsCacheFMLIST, logosCacheFMLIST, localLogos,
                  noobishCache >>

\* ws.onmessage for a message of the plugin with action 'find'
ClientFind(list, isServer) ==
  /\ call.fn = "subscriber"
  /\ call' = [call EXCEPT
                !.ui = showCandidates(call.ui, list, isServer),
                !.step = [kind |-> "find", list |-> list, before |-> call.ui]]
  /\ ClientUnchanged

\* a click on the previous or the next button; the buttons are shown with
\* the container
ClientSwitch(dir) ==
  /\ call.fn = "subscriber"
  /\ call.ui.container = "block"
  /\ call' = [call EXCEPT
                !.ui = switchCandidate(call.ui, dir),
                !.step = [kind |-> "switch", list |-> NotAnArray, before |-> call.ui]]
  /\ ClientUnchanged

\* a click on the +N badge: showStationsOverlay(currentCandidates)
ClientOpenList ==
  /\ call.fn = "subscriber"
  /\ call.ui.container = "block"
  /\ Len(call.ui.currentCandidates) > 1
  /\ call' = [call EXCEPT
                !.ui.stationsOverlay = TRUE,
                !.step = [kind |-> "openList", list |-> NotAnArray, before |-> call.ui]]
  /\ ClientUnchanged

\* close() of the list of stations
ClientCloseList ==
  /\ call.fn = "subscriber"
  /\ call.ui.stationsOverlay
  /\ call' = [call EXCEPT
                !.ui.stationsOverlay = FALSE,
                !.step = [kind |-> "closeList", list |-> NotAnArray, before |-> call.ui]]
  /\ ClientUnchanged

NextClient ==
  \/ \E list \in PushedLists, isServer \in BOOLEAN : ClientFind(list, isServer)
  \/ \E dir \in { -1, 1 } : ClientSwitch(dir)
  \/ ClientOpenList
  \/ ClientCloseList

SpecClient == InitClient /\ [][NextClient]_vars

(* ----------------------------- reconnection ---------------------------- *)
\* the /text and /data_plugins sockets of the server and the socket of the
\* subscriber
Channels == { "text", "plugins", "subscriber" }

ServerReconnectMs == 2000
SubscriberReconnectMs == 3000
ReconnectTickMs == 1000

\* the second argument of setTimeout in the onclose of a channel
reconnectDelay(ch) ==
  IF ch = "subscriber" THEN SubscriberReconnectMs ELSE ServerReconnectMs

\* connectPluginsWS / connectTextWS / connectDataWS that open nothing once
\* the socket has closed
connect_GivesUp(ch, socket) == socket

\* connectPluginsWS(), connectTextWS(): nothing when the socket is open,
\* else a new socket; connectDataWS() of the subscriber: a new socket
connect(ch, socket) ==
  IF ch # "subscriber" /\ socket = "open" THEN socket
  ELSE "connecting"

\* each side has called its connect function once; no timer is set.
\* timers holds for each channel the reconnect timers that are pending,
\* each with the time left and the time waited since it was set
InitReconnect ==
  /\ MonitorInit
  /\ cfgFile = CfgA
  /\ DataInit
  /\ call = [fn |-> "channels", args |-> <<>>, done |-> FALSE, result |-> <<>>,
             socket |-> [ch \in Channels |-> "connecting"],
             timers |-> [ch \in Channels |-> <<>>],
             afterFailure |-> [ch \in Channels |-> FALSE],
             step |-> [kind |-> "start", ch |-> "text", waited |-> 0,
                       afterFailure |-> FALSE]]

ReconnectUnchanged ==
  /\ UNCHANGED monitorVars
  /\ UNCHANGED << locationsCache, locationsCacheFMLIST, logosCacheFMLIST, localLogos,
                  noobishCache >>

\* onopen
ChannelOpen(ch) ==
  /\ call.fn = "channels"
  /\ call.socket[ch] = "connecting"
  /\ call' = [call EXCEPT
                !.socket[ch] = "open",
                !.step = [kind |-> "open", ch |-> ch, waited |-> 0,
                          afterFailure |-> FALSE]]
  /\ ReconnectUnchanged

\* onclose, of an open socket or of one that could not connect:
\* setTimeout(connect..., delay)
ChannelClose(ch) ==
  /\ call.fn = "channels"
  /\ call.socket[ch] \in { "connecting", "open" }
  /\ call' = [call EXCEPT
                !.socket[ch] = "closed",
                !.timers[ch] = Append(@, [left |-> reconnectDelay(ch), waited |-> 0]),
                !.afterFailure[ch] = (call.socket[ch] = "connecting"),
                !.step = [kind |-> "close", ch |-> ch, waited |-> 0,
                          afterFailure |-> FALSE]]
  /\ ReconnectUnchanged

\* a reconnect timer fires: the connect function runs
ReconnectFire(ch) ==
  /\ call.fn = "channels"
  /\ call.timers[ch] # <<>>
  /\ Head(call.timers[ch]).left = 0
  /\ call' = [call EXCEPT
                !.socket[ch] = connect(ch, @),
                !.timers[ch] = Tail(@),
                !.step = [kind |-> "connect", ch |-> ch,
                          waited |-> Head(call.timers[ch]).waited,
                          afterFailure |-> call.afterFailure[ch]]]
  /\ ReconnectUnchanged

\* time passes while timers are pending and none is due
ReconnectTick ==
  /\ call.fn = "channels"
  /\ \E ch \in Channels : call.timers[ch] # <<>>
  /\ \A ch \in Channels : \A i \in 1..Len(call.timers[ch]) :
       call.timers[ch][i].left >= ReconnectTickMs
  /\ call' = [call EXCEPT
                !.timers = [ch \in Channels |->
                              [i \in 1..Len(call.timers[ch]) |->
                                 [left |-> call.timers[ch][i].left - ReconnectTickMs,
                                  waited |-> call.timers[ch][i].waited + ReconnectTickMs]]],
                !.step = [kind |-> "tick", ch |-> "text", waited |-> 0,
                          afterFailure |-> FALSE]]
  /\ ReconnectUnchanged

NextReconnect ==
  \/ \E ch \in Channels : ChannelOpen(ch)
  \/ \E ch \in Channels : ChannelClose(ch)
  \/ \E ch \in Channels : ReconnectFire(ch)
  \/ ReconnectTick

\* timers that are due fire and time passes
SpecReconnect ==
  /\ InitReconnect
  /\ [][NextReconnect]_vars
  /\ \A ch \in Channels : WF_vars(ReconnectFire(ch))
  /\ WF_vars(ReconnectTick)

(* ------------------------------ claims --------------------------------- *)
Usable(d) == ~Falsy(d.freq) /\ d.sig # SigNaN
ThresholdOf(d) == getThresholdForFrequency(d.freq, cfgFile)
StableMs == cfgFile.stableTime * SecondMs
\* the step handles a telemetry event that does not take the TX branch
MonitorEvent == step'.kind = "text" /\ ~HasTx(step'.data)
\* the accumulator holds nothing from before the event d
AccumulatorCleared(d) ==
  \/ signalCount' = 0 /\ signalSum' = 0 /\ signalWindowStart' = 0
  \/ signalCount' = 1 /\ signalSum' = SignalDbuv(d) /\ signalWindowStart' = now
EmptyPush(p) == p.list = <<>>

\* C1: a broadcastFindOnce that captured generation g at dispatch pushes
\* nothing when its search settles while the monitor's generation is not g
C1_StaleSearchPushesNothing ==
  (step.kind = "resolve" /\ step.search[1].s.gen # monitorState.gen)
    => step.out = <<>>

\* a search with candidates settles under a newer generation while the
\* monitor is active again
C1_Witness ==
  /\ step.kind = "resolve"
  /\ step.search[1].o.ok
  /\ step.search[1].o.list # <<>>
  /\ step.search[1].s.gen # monitorState.gen
  /\ monitorState.active

\* C2: of the searches that are in flight at the same time at most one
\* pushes: a search that was in flight when another one pushed pushes nothing
C2_OverlappingSearchesPushOnce ==
  (step.kind = "resolve" /\ step.search[1].s.peerPushed) => step.out = <<>>

\* C3: a window whose samples are all at or above the threshold and that
\* spans stableTime fixes the monitor (one start of periodic broadcasting),
\* and a further sample with the frozen identity starts nothing
C3_Fixes ==
  LET d == step'.data
  IN ( /\ MonitorEvent
       /\ Usable(d)
       /\ ~signalFixed
       /\ signalWindowStart # 0
       /\ d.freq = lastFrequency
       /\ d.ant = monitorState.pendingAnt
       /\ windowMin # <<>>
       /\ windowMin[1] >= ThresholdOf(d)
       /\ SignalDbuv(d) >= ThresholdOf(d)
       /\ now - signalWindowStart >= StableMs )
     => ( /\ signalFixed'
          /\ "fix" \in step'.path
          /\ monitorState'.active
          /\ monitorState'.broadcastTimer = now + BroadcastPeriodMs
          /\ Len(inflight') = Len(inflight) + 1 )

C3_NoSecondFixation ==
  LET d == step'.data
  IN ( /\ MonitorEvent
       /\ signalFixed
       /\ d.freq = monitorState.pendingFrequency
       /\ PiOf(d) = monitorState.pendingPi
       /\ d.ant = monitorState.pendingAnt )
     => ( /\ signalFixed'
          /\ "fix" \notin step'.path
          /\ monitorState' = monitorState
          /\ inflight' = inflight
          /\ step'.out = <<>> )

C3_SustainedSignalFixesOnce == [][C3_Fixes /\ C3_NoSecondFixation]_vars

\* a sample with the frozen identity is handled after a fixation whose
\* window had every sample at or above the threshold
C3_Witness ==
  /\ step.kind = "text"
  /\ "fixed" \in step.path
  /\ signalFixed
  /\ monitorState.active
  /\ windowMin # <<>>
  /\ windowMin[1] >= getThresholdForFrequency(lastFrequency, cfgFile)

\* C4: while not fixed, a sample below threshold minus the 3 dB tolerance
\* that arrives before the window completes resets the accumulator and
\* leaves the monitor idle
C4_LowSampleResetsWindow ==
  [][ LET d == step'.data
      IN ( /\ MonitorEvent
           /\ Usable(d)
           /\ ~signalFixed
           /\ SignalDbuv(d) < ThresholdOf(d) - ThresholdTolerance
           /\ (signalWindowStart = 0 \/ now - signalWindowStart < StableMs) )
         => ( /\ signalSum' = 0
              /\ signalCount' = 0
              /\ signalWindowStart' = 0
              /\ ~signalFixed'
              /\ ~monitorState'.active ) ]_vars

\* C5: no decision before the window completes; at completion a mean below
\* the threshold resets the accumulator, leaves the monitor idle and starts
\* nothing, a mean at or above it fixes the identity of the completing sample
\* and starts periodic broadcasting
C5_Decision ==
  LET d == step'.data
      reset == step'.path \cap {"freq", "ant"} # {}
      fresh == reset \/ signalWindowStart = 0
      start == IF fresh THEN now ELSE signalWindowStart
      sum == (IF fresh THEN 0 ELSE signalSum) + SignalDbuv(d)
      count == (IF fresh THEN 0 ELSE signalCount) + 1
      complete == now - start >= StableMs
  IN ( MonitorEvent /\ Usable(d) /\ (~signalFixed \/ reset) )
     => /\ ~complete =>
             /\ ~signalFixed'
             /\ step'.path \cap {"fix", "belowMean"} = {}
             /\ signalWindowStart' = start
             /\ signalSum' = sum
             /\ signalCount' = count
             /\ inflight' = inflight
             /\ (~reset => monitorState' = monitorState)
        /\ (complete /\ sum < ThresholdOf(d) * count) =>
             /\ ~signalFixed'
             /\ signalWindowStart' = 0
             /\ signalSum' = 0
             /\ signalCount' = 0
             /\ ~monitorState'.active
             /\ monitorState'.broadcastTimer = NoTimer
             /\ inflight' = inflight
        /\ (complete /\ sum >= ThresholdOf(d) * count) =>
             /\ signalFixed'
             /\ monitorState'.active
             /\ monitorState'.activeFrequency = d.freq
             /\ monitorState'.activePi = PiOf(d)
             /\ monitorState'.ant = d.ant
             /\ monitorState'.pendingFrequency = d.freq
             /\ monitorState'.pendingPi = PiOf(d)
             /\ monitorState'.pendingAnt = d.ant
             /\ monitorState'.broadcastTimer = now + BroadcastPeriodMs
             /\ inflight' = Append(inflight,
                  [freq |-> d.freq, pi |-> PiOf(d), ant |-> d.ant,
                   gen |-> monitorState'.gen, peerPushed |-> FALSE])

C5_DecisionAtWindowCompletion == [][C5_Decision]_vars

\* a window with a sample below the threshold is fixed on its mean
C5_Witness ==
  /\ step.kind = "text"
  /\ "fix" \in step.path
  /\ signalFixed
  /\ windowMin # <<>>
  /\ windowMin[1] < getThresholdForFrequency(lastFrequency, cfgFile)

\* C6: an event whose frequency differs from the last seen one performs a
\* full reset while it is handled: pending and active identity cleared,
\* monitor inactive, timers cancelled, accumulator reset, empty list pushed
C6_Reset ==
  LET d == step'.data
  IN ( MonitorEvent /\ d.freq # lastFrequency )
     => /\ "freq" \in step'.path
        /\ lastFrequency' = d.freq
        /\ Len(step'.afterFreq) = 1
        /\ LET r == step'.afterFreq[1]
           IN /\ r.ms.pendingFrequency = FNull
              /\ r.ms.pendingPi = PNull
              /\ r.ms.pendingAnt = AntNull
              /\ r.ms.activeFrequency = FNull
              /\ r.ms.activePi = PNull
              /\ ~r.ms.active
              /\ r.ms.broadcastTimer = NoTimer
              /\ r.ms.stableTimer = NoTimer
              /\ r.ms.gen = monitorState.gen + 1
              /\ ~r.signalFixed
              /\ r.signalSum = 0
              /\ r.signalCount = 0
              /\ r.signalWindowStart = 0
        /\ Len(step'.out) >= 1
        /\ step'.out[1] = [freq |-> FNull, pi |-> PNull, list |-> <<>>,
                           sent |-> wsPluginsOpen]
        /\ \A k \in 1..Len(step'.out) : EmptyPush(step'.out[k])
        /\ monitorState'.pendingFrequency = FNull
        /\ monitorState'.pendingPi = PNull
        /\ monitorState'.activeFrequency = FNull
        /\ monitorState'.activePi = PNull
        /\ ~monitorState'.active
        /\ monitorState'.broadcastTimer = NoTimer
        /\ monitorState'.stableTimer = NoTimer
        /\ ~signalFixed'
        /\ AccumulatorCleared(d)

FixedActive == signalFixed /\ monitorState.active
FrozenDiffers(d) ==
  \/ d.freq # monitorState.pendingFrequency
  \/ PiOf(d) # monitorState.pendingPi
  \/ d.ant # monitorState.pendingAnt

C7_AnyChangeStopsBroadcast ==
  [][ LET d == step'.data
      IN ( MonitorEvent /\ FixedActive /\ FrozenDiffers(d) /\ d.sig # SigNaN )
         => ( /\ ~signalFixed'
              /\ ~monitorState'.active
              /\ monitorState'.broadcastTimer = NoTimer
              /\ AccumulatorCleared(d) ) ]_vars

\* C7 amended: a frequency or antenna change cancels fixation and stops the
\* broadcast; an identifier-only change on a sample with a finite level
\* clears the fixed flag and the accumulator and leaves the broadcast of the
\* old identity running; with a non-finite level it changes nothing
C7_Cancel ==
  LET d == step'.data
  IN ( MonitorEvent /\ FixedActive /\ FrozenDiffers(d) )
     => IF d.freq # monitorState.pendingFrequency \/ d.ant # monitorState.pendingAnt
        THEN /\ ~signalFixed'
             /\ ~monitorState'.active
             /\ monitorState'.activeFrequency = FNull
             /\ monitorState'.broadcastTimer = NoTimer
             /\ monitorState'.gen > monitorState.gen
             /\ AccumulatorCleared(d)
        ELSE IF d.sig # SigNaN
        THEN /\ ~signalFixed'
             /\ signalSum' = 0
             /\ signalCount' = 0
             /\ signalWindowStart' = 0
             /\ monitorState' = monitorState
             /\ inflight' = inflight
        ELSE /\ signalFixed'
             /\ monitorState' = monitorState
             /\ UNCHANGED << signalSum, signalCount, signalWindowStart, inflight >>

C7_ChangeCancelsFixation == [][C7_Cancel]_vars

\* an identifier-only change has cleared the fixed flag and the broadcast of
\* the old identity is still running
C7_Witness ==
  /\ step.kind = "text"
  /\ "unfix" \in step.path
  /\ step.path \cap {"freq", "ant"} = {}
  /\ ~signalFixed
  /\ monitorState.active
  /\ monitorState.broadcastTimer # NoTimer
  /\ PiOf(step.data) # monitorState.activePi

\* C8: an event whose antenna differs from the pending antenna stops the
\* periodic broadcast (generation incremented), resets the accumulator and
\* the fixed flag and pushes an empty list, all while it is handled
C8_Cancel ==
  LET d == step'.data
  IN ( MonitorEvent /\ d.ant # monitorState.pendingAnt )
     => /\ "ant" \in step'.path
        /\ Len(step'.afterAnt) = 1
        /\ LET r == step'.afterAnt[1]
           IN /\ ~r.ms.active
              /\ r.ms.broadcastTimer = NoTimer
              /\ r.ms.pendingAnt = d.ant
              /\ r.ms.gen = monitorState.gen + (IF "freq" \in step'.path THEN 2 ELSE 1)
              /\ ~r.signalFixed
              /\ r.signalSum = 0
              /\ r.signalCount = 0
              /\ r.signalWindowStart = 0
        /\ Len(step'.out) >= 1
        /\ step'.out[Len(step'.out)] =
             [freq |-> IF d.freq = FUndef THEN FNull ELSE d.freq, pi |-> PNull,
              list |-> <<>>, sent |-> wsPluginsOpen]
        /\ monitorState'.gen > monitorState.gen
        /\ ~monitorState'.active
        /\ monitorState'.broadcastTimer = NoTimer
        /\ ~signalFixed'
        /\ AccumulatorCleared(d)

C9_TransmitterInfoIsPushed ==
  [][ LET d == step'.data
      IN ( /\ step'.kind = "text"
           /\ HasTx(d)
           /\ now - lastCallTs >= ThrottleIntervalMs )
         => step'.out =
              << [freq |-> d.freq, pi |-> PiOf(d),
                  list |-> << [isServer |-> TRUE, freq |-> d.freq,
                               station |-> d.tx] >>,
                  sent |-> wsPluginsOpen] >> ]_vars

\* C10: the first throttled call fires at once, a call less than 250 ms
\* after the last fired call is dropped and never sent later, a call 250 ms
\* or more after it fires, and after a reset by a frequency change the next
\* call fires at once
IsTxPush(p) == p.list # <<>> /\ p.list[1].isServer

C10_Throttle ==
  LET d == step'.data
      fires == /\ Len(step'.out) = 1
               /\ IsTxPush(step'.out[1])
               /\ step'.out[1].freq = d.freq
  IN /\ step'.kind = "txcall" =>
          /\ (txHist.firedAt = 0 \/ txHist.resetSince) => fires
          /\ (txHist.firedAt # 0 /\ ~txHist.resetSince
                /\ now - txHist.firedAt < ThrottleIntervalMs) => step'.out = <<>>
          /\ (now - txHist.firedAt >= ThrottleIntervalMs) => fires
     /\ step'.kind # "txcall" =>
          \A k \in 1..Len(step'.out) : ~IsTxPush(step'.out[k])

C11_TxPathKeepsMonitorState ==
  [][ (step'.kind = "text" /\ HasTx(step'.data))
        => /\ monitorState' = monitorState
           /\ lastFrequency' = lastFrequency
           /\ signalFixed' = signalFixed
           /\ signalSum' = signalSum
           /\ signalCount' = signalCount
           /\ signalWindowStart' = signalWindowStart
           /\ inflight' = inflight ]_vars

\* a transmitterInfo event on another frequency was handled while the
\* monitor is fixed and broadcasting
C11_Witness ==
  /\ step.kind = "text"
  /\ HasTx(step.data)
  /\ step.data.freq # lastFrequency
  /\ signalFixed
  /\ monitorState.active
  /\ monitorState.broadcastTimer # NoTimer

\* the search a dispatch made while the monitor state is ms suspends
DispatchedBy(ms) ==
  [freq |-> ms.activeFrequency, pi |-> ms.activePi, ant |-> ms.ant,
   gen |-> ms.gen, peerPushed |-> FALSE]

\* C12: the step that fixes dispatches one search at once and arms the
\* timer 3 s ahead; the timer callback runs only while active, exactly
\* when due, dispatches one search and is due again 3 s later; nothing
\* else dispatches; an inactive monitor has no timer, an active one has a
\* timer due within 3 s
C12_Dispatch ==
  /\ (step'.kind = "text" /\ "fix" \in step'.path)
       => /\ monitorState'.active
          /\ inflight' = Append(inflight, DispatchedBy(monitorState'))
          /\ monitorState'.broadcastTimer = now + BroadcastPeriodMs
  /\ step'.kind = "timer"
       => /\ monitorState.active
          /\ monitorState'.active
          /\ now = monitorState.broadcastTimer
          /\ inflight' = Append(inflight, DispatchedBy(monitorState))
          /\ monitorState'.broadcastTimer = now + BroadcastPeriodMs
  /\ Len(inflight') > Len(inflight)
       => (step'.kind = "timer" \/ "fix" \in step'.path)
  /\ ~monitorState'.active => monitorState'.broadcastTimer = NoTimer
  /\ monitorState'.active
       => /\ monitorState'.broadcastTimer >= now'
          /\ monitorState'.broadcastTimer <= now' + BroadcastPeriodMs

C12_ImmediateThenPeriodicSearch == [][C12_Dispatch]_vars

\* the timer callback dispatched a search while the search dispatched at
\* the fixation 3 s earlier is still suspended
C12_Witness ==
  /\ step.kind = "timer"
  /\ monitorState.active
  /\ Len(inflight) = 2
  /\ inflight[1].gen = monitorState.gen
  /\ inflight[2] = DispatchedBy(monitorState)
  /\ monitorState.broadcastTimer = now + BroadcastPeriodMs


\* the map of the documented example: {"88.0": 8, "90-92": 12, all: 5}
ExampleThresholdMap ==
  << [kind |-> "exact", a |-> 88000, b |-> 88000, v |-> 800],
     [kind |-> "range", a |-> 90000, b |-> 92000, v |-> 1200],
     [kind |-> "all", a |-> 0, b |-> 0, v |-> 500] >>

ThresholdResolved ==
  call.fn = "getThresholdForFrequency" /\ call.done /\ call.args.freq # FUndef

\* C13: for a frequency, the threshold is the value of an exact entry for
\* it if the map has one; else of a range entry that contains it between
\* the smaller and the larger endpoint, inclusive; else of the catch-all;
\* else the global scalar, which is also the answer without a map. For the
\* example map 88.0 gives 8, 91.0 gives 12 and 100.0 gives 5.
C13_ThresholdPrecedence ==
  ThresholdResolved =>
    LET f == call.args.freq
        r == call.result[1]
        map == cfgFile.thresholdSignals
        es == { map[i] : i \in 1..Len(map) }
        exact == { e \in es : e.kind = "exact" /\ e.a = f }
        range == { e \in es : /\ e.kind = "range"
                               /\ \/ (e.a <= f /\ f <= e.b)
                                  \/ (e.b <= f /\ f <= e.a) }
        all == { e \in es : e.kind = "all" }
    IN /\ ~cfgFile.hasMap => r = cfgFile.thresholdSignal
       /\ cfgFile.hasMap =>
            IF exact # {} THEN r \in { e.v : e \in exact }
            ELSE IF range # {} THEN r \in { e.v : e \in range }
            ELSE IF all # {} THEN r \in { e.v : e \in all }
            ELSE r = cfgFile.thresholdSignal
       /\ (cfgFile.hasMap /\ map = ExampleThresholdMap) =>
            /\ f = 88000 => r = 800
            /\ f = 91000 => r = 1200
            /\ f = 100000 => r = 500

\* a frequency with an exact entry, a range entry around it and a
\* catch-all in the map, the range listed first, was resolved
C13_Witness ==
  /\ ThresholdResolved
  /\ cfgFile.hasMap
  /\ Len(cfgFile.thresholdSignals) = 3
  /\ cfgFile.thresholdSignals[1].kind = "range"
  /\ cfgFile.thresholdSignals[1].a <= call.args.freq
  /\ call.args.freq <= cfgFile.thresholdSignals[1].b
  /\ cfgFile.thresholdSignals[2].kind = "exact"
  /\ cfgFile.thresholdSignals[2].a = call.args.freq
  /\ cfgFile.thresholdSignals[3].kind = "all"
  /\ call.result = << 800 >>


\* C18: normalising a channel that normalisation returned gives the same
\* channel, and a value below 65.9 MHz or above 108.0 MHz normalises to
\* no match
C18_NormalizeFreqIdempotent ==
  call.fn = "normalizeFreq" =>
    /\ Len(call.result) = 2 => call.result[2] = call.result[1]
    /\ ( /\ Len(call.result) >= 1
         /\ call.args.f # FUndef
         /\ (call.args.f < LowBandMin \/ call.args.f > MainBandMax) )
         => call.result[1] = FNull


LogoResolved == call.fn = "findLogoUrl" /\ call.done
DefaultLogoUrl == << RemoteLogosBase, DefaultLogoFile >>


\* which tiers of the resolution order have an entry for the candidate
LogoItu == IF call.args.st.itu = "" THEN DefaultItu ELSE call.args.st.itu
LogoPiUsable == call.args.st.pi # <<>> /\ UpperCase(call.args.st.pi) # NOPI
KnownRemoteFiles ==
  IF LogoItu \in DOMAIN noobishCache
  THEN { noobishCache[LogoItu][k] : k \in 1..Len(noobishCache[LogoItu]) }
  ELSE {}
IdMapHit ==
  call.args.st.hasId /\ call.args.st.idStation \in DOMAIN logosCacheFMLIST
LocalExactHit ==
  \E k \in 1..Len(localLogos) :
    \/ /\ normalizeName(call.args.st.station) # <<>>
       /\ localLogos[k].key = normalizeName(call.args.st.station)
    \/ /\ LogoPiUsable
       /\ localLogos[k].key = normalizeName(call.args.st.pi)
LocalPartialHit ==
  /\ LogoPiUsable
  /\ \E k \in 1..Len(localLogos) :
       \/ Includes(localLogos[k].key, normalizeName(call.args.st.pi))
       \/ Includes(normalizeName(call.args.st.pi), localLogos[k].key)
RemoteExactHit ==
  \E file \in KnownRemoteFiles :
    \/ /\ normalizePi(call.args.st.pi) # <<>>
       /\ \/ stripExt(file) = normalizePi(call.args.st.pi) \o << "_" >>
                                 \o replaceAllSpaces(UpperCase(call.args.st.station))
          \/ stripExt(file) = normalizePi(call.args.st.pi)
    \/ normalizeFile(file) \in stationNormsOf(call.args.st)
RemotePartialHit ==
  \E file \in KnownRemoteFiles : \E n \in stationNormsOf(call.args.st) :
    \/ /\ Len(n) >= 3
       /\ \/ Includes(normalizeFile(file), n)
          \/ Includes(n, normalizeFile(file))
    \/ Includes(normalizeFileStrong(file), n)
    \/ Includes(n, normalizeFileStrong(file))
FirstTierHit ==
  IF IdMapHit THEN "idmap"
  ELSE IF LocalExactHit THEN "localExact"
  ELSE IF LocalPartialHit THEN "localPartial"
  ELSE IF RemoteExactHit THEN "remoteExact"
  ELSE IF RemotePartialHit THEN "remotePartial"
  ELSE "default"

\* C19: whatever the candidate and the catalogs, the value findLogoUrl
\* returns is a non-empty string, and it is the default logo when no
\* catalog has an entry for the candidate
C19_LogoNeverEmpty ==
  LogoResolved =>
    /\ call.result[1].defined
    /\ call.result[1].text # <<>>
    /\ FirstTierHit = "default" => call.result[1].text = DefaultLogoUrl

SearchResolved == call.fn = "searchStations" /\ call.done
SearchList == call.result[1].list
SearchConsulted == call.result[1].consulted
SearchSources(list) == { list[i].src.set : i \in 1..Len(list) }

\* the lists searchInMyStations and searchInMaps can return for the query
\* of the call
UserListResults ==
  { searchInMyStations(call.args.freq, call.args.pi, call.args.ant, fetched).list :
      fetched \in SearchFetches }
MapsResults ==
  { r.list : r \in UNION { searchInMaps(call.args.freq, call.args.pi, fetched) :
                             fetched \in SearchFetches } }

\* C14: searchStations returns in mode 1 the geo-search result and never
\* reads the user list, in mode 2 the user-list result and never reads the
\* datasets, in mode 3 the user-list result when it is not empty and
\* otherwise what mode 1 returns for the query.
C14_Step ==
  (call.fn = "searchStations" /\ ~call.done /\ call'.done) =>
    LET list == call'.result[1].list
        consulted == call'.result[1].consulted
    IN /\ cfgFile.mode = 1 =>
            /\ consulted \subseteq { "primary", "secondary" }
            /\ "user" \notin SearchSources(list)
       /\ cfgFile.mode = 2 =>
            /\ list \in UserListResults
            /\ consulted \subseteq { "user" }
            /\ SearchSources(list) \subseteq { "user" }
       /\ cfgFile.mode = 3 =>
            IF UserListResults # { <<>> }
            THEN /\ list \in UserListResults
                 /\ list # <<>>
                 /\ consulted = { "user" }
                 /\ SearchSources(list) = { "user" }
            ELSE /\ list \in MapsResults
                 /\ "user" \notin SearchSources(list)
C14_SearchObeysMode == [][C14_Step]_vars
C14_Witness ==
  /\ SearchResolved
  /\ cfgFile.mode = 3
  /\ cfgFile.myStantions # <<>>
  /\ SearchList # <<>>
  /\ SearchSources(SearchList) = { "primary" }
  /\ SearchConsulted = { "user", "primary" }

\* the dataset a resolved geo search took its records from
ConsultedDataset ==
  IF "secondary" \in SearchConsulted THEN locationsCacheFMLIST ELSE locationsCache
ConsultedName ==
  IF "secondary" \in SearchConsulted THEN "secondary" ELSE "primary"
QueryFreq == normalizeFreq(call.args.freq)
QueryPi == normalizePi(call.args.pi)

\* the stations the geo search is to return: active, at a location with a
\* usable coordinate within maxDistanceKm, on the query's frequency and
\* with the query's identifier
GeoExpected(dataset, name) ==
  UNION { { [set |-> name, loc |-> l, st |-> j] :
              j \in { k \in 1..Len(dataset[l].stations) :
                        LET loc == dataset[l]
                            st == loc.stations[k]
                        IN /\ ~st.inactive
                           /\ haversine(loc.latlon) # DistNaN
                           /\ haversine(loc.latlon)
                                <= maxDistanceOf(cfgFile) * TenthsPerKm
                           /\ QueryFreq # FNull => normalizeFreq(st.freq) = QueryFreq
                           /\ QueryPi # <<>> => normalizePi(st.pi) = QueryPi } } :
          l \in 1..Len(dataset) }

\* C15: for a query with a frequency on a grid or an identifier, the geo
\* search returns exactly the active stations within maxDistanceKm that
\* match the query, each once, and none from a location that is farther or
\* whose coordinate is unusable.
C15_GeoSearchExact ==
  (SearchResolved /\ cfgFile.mode = 1 /\ (QueryFreq # FNull \/ QueryPi # <<>>)) =>
    /\ { SearchList[i].src : i \in 1..Len(SearchList) }
         = GeoExpected(ConsultedDataset, ConsultedName)
    /\ \A i, j \in 1..Len(SearchList) :
         i # j => SearchList[i].src # SearchList[j].src

\* the stations of a dataset that pass the filter of the pass over the
\* primary dataset
PassingStations(dataset, name) ==
  UNION { { [set |-> name, loc |-> l, st |-> j] :
              j \in { k \in 1..Len(dataset[l].stations) :
                        LET loc == dataset[l]
                            st == loc.stations[k]
                        IN /\ ~st.inactive
                           /\ ~GreaterThan(haversine(loc.latlon), maxDistanceOf(cfgFile))
                           /\ QueryFreq # FNull => normalizeFreq(st.freq) = QueryFreq
                           /\ QueryPi # <<>> => normalizePi(st.pi) = QueryPi } } :
          l \in 1..Len(dataset) }

ListSources(list) == { list[i].src : i \in 1..Len(list) }

\* C16: the geo search reads the secondary dataset exactly when the pass
\* over the primary dataset gives no match, filters it as it filters the
\* primary one, and returns records of one dataset only.
C16_SecondaryOnlyWhenPrimaryEmpty ==
  (SearchResolved /\ cfgFile.mode = 1 /\ (QueryFreq # FNull \/ QueryPi # <<>>)) =>
    /\ "secondary" \in SearchConsulted
         <=> PassingStations(locationsCache, "primary") = {}
    /\ IF PassingStations(locationsCache, "primary") # {}
       THEN ListSources(SearchList) = PassingStations(locationsCache, "primary")
       ELSE ListSources(SearchList)
              = PassingStations(locationsCacheFMLIST, "secondary")
    /\ Cardinality(SearchSources(SearchList)) <= 1
C16_Witness ==
  /\ SearchResolved
  /\ cfgFile.mode = 1
  /\ locationsCache # <<>>
  /\ PassingStations(locationsCache, "primary") = {}
  /\ SearchList # <<>>
  /\ SearchSources(SearchList) = { "secondary" }

\* whether the record from a precedes the record from b in the list the
\* sort is given: the order of the dataset, or of the user list
Precedes(a, b) == a.loc < b.loc \/ (a.loc = b.loc /\ a.st < b.st)

\* C17: a list returned by the geo search or by the user-list search is in
\* ascending order of distance, and records at the same distance keep the
\* order they had before the sort.
C17_SortedByDistance ==
  SearchResolved =>
    \A i, j \in 1..Len(SearchList) :
      (i < j /\ SearchList[i].distance # DistNaN /\ SearchList[j].distance # DistNaN) =>
        /\ SearchList[i].distance <= SearchList[j].distance
        /\ SearchList[i].distance = SearchList[j].distance =>
             Precedes(SearchList[i].src, SearchList[j].src)

\* C21: the listing of a country is requested at most once, however the
\* calls of getNoobishLogos interleave.
C21_ListingFetchedOnce ==
  call.fn = "getNoobishLogos" =>
    \A k \in CountryKeys : call.fetches[k] <= 1

\* C22: a load whose request for a dataset fails (no response, a status
\* that is not ok, a body that is not JSON or is not an object) leaves the
\* cache of that dataset as it was, and the call does not reject.
C22_Step ==
  (call.fn = "loadStationsFromMaps" /\ call'.loads = call.loads + 1) =>
    LET r == call'.result[1]
    IN /\ ~r.thrown
       /\ r.maps.kind \in LoadFailures => locationsCache' = locationsCache
       /\ r.fmlist.kind \in LoadFailures => locationsCacheFMLIST' = locationsCacheFMLIST
       /\ r.logos.kind \in LoadFailures => logosCacheFMLIST' = logosCacheFMLIST
C22_FailedLoadKeepsCache == [][C22_Step]_vars

C24_EmptyPushClearsDisplay ==
  (call.fn = "subscriber" /\ call.step.kind = "find"
     /\ call.step.list.items = <<>>) =>
    /\ call.ui.container = "none"
    /\ call.ui.currentCandidates = <<>>
    /\ call.ui.currentCandidateIndex = 0
C24_Witness ==
  /\ call.fn = "subscriber"
  /\ call.step.kind = "find"
  /\ call.step.list = [isArray |-> TRUE, items |-> <<>>]
  /\ call.step.before.container = "block"
  /\ call.step.before.currentCandidateIndex > 0
  /\ call.ui.container = "none"

\* C25: the closure of a channel sets one reconnect timer with the fixed
\* delay of its side, none is pending besides it, the connect function runs
\* when exactly that delay has passed and opens a new socket, also after an
\* attempt that failed; so a closed channel is always followed by a new
\* attempt.
C25_CloseStep ==
  \A ch \in Channels :
    (call.fn = "channels" /\ call.socket[ch] # "closed" /\ call'.socket[ch] = "closed") =>
      /\ Len(call'.timers[ch]) = 1
      /\ call'.timers[ch][1].left = reconnectDelay(ch)
C25_ConnectStep ==
  (call.fn = "channels" /\ call'.step.kind = "connect" /\ call'.step # call.step) =>
    /\ call'.step.waited = reconnectDelay(call'.step.ch)
    /\ call'.socket[call'.step.ch] = "connecting"
C25_ReconnectAfterFixedDelay ==
  /\ [][C25_CloseStep /\ C25_ConnectStep]_vars
  /\ \A ch \in Channels :
       (call.fn = "channels" /\ call.socket[ch] = "closed")
         ~> (call.socket[ch] = "connecting")
C25_Witness ==
  /\ call.fn = "channels"
  /\ call.step.kind = "connect"
  /\ call.step.ch = "subscriber"
  /\ call.step.afterFailure
  /\ call.step.waited = SubscriberReconnectMs
  /\ call.socket["subscriber"] = "connecting"

\* C26: a telemetry message without a frequency is dropped: it leaves the
\* monitor state, the accumulator, the fixed flag and the last-seen
\* frequency as they were, cancels nothing and pushes nothing.
C26_Step ==
  (step'.kind = "text" /\ step' # step /\ step'.data.freq = FUndef) =>
    /\ monitorState' = monitorState
    /\ lastFrequency' = lastFrequency
    /\ signalFixed' = signalFixed
    /\ signalSum' = signalSum
    /\ signalCount' = signalCount
    /\ signalWindowStart' = signalWindowStart
    /\ inflight' = inflight
    /\ step'.out = <<>>
C26_InvalidMessageDropped == [][C26_Step]_vars

\* C27: the azimuth of every candidate of the geo search is at least 0 and
\* less than 360.
C27_AzimuthInRange ==
  SearchResolved =>
    \A i \in 1..Len(SearchList) :
      (SearchList[i].src.set # "user" /\ SearchList[i].azimuth # AngleNaN) =>
        /\ 0 <= SearchList[i].azimuth
        /\ SearchList[i].azimuth < FullTurn

\* the cancellations a telemetry event ran: one stopFindBroadcast in each of
\* the frequency-change block, the antenna-change block, the below-threshold
\* window and the fixation
CancellationPaths == {"freq", "ant", "belowMean", "fix"}
Cancellations(path) == Cardinality(path \cap CancellationPaths)
Inactive(ms) == ~ms.active /\ ms.broadcastTimer = NoTimer

\* C28: the generation counter never decreases; every cancellation (frequency
\* change, antenna change, completed window with a mean below the threshold,
\* the stop that precedes a fixation) adds exactly one to it and leaves the
\* monitor inactive with no broadcast timer; a cancellation with no timer set
\* changes nothing of the monitor state but the counter.
C28_Step ==
  /\ monitorState'.gen >= monitorState.gen
  /\ step' # step =>
       /\ step'.kind = "text" =>
            monitorState'.gen = monitorState.gen + Cancellations(step'.path)
       /\ step'.kind # "text" => monitorState'.gen = monitorState.gen
       /\ (step'.kind = "text" /\ "freq" \in step'.path) =>
            /\ step'.afterFreq[1].ms.gen = monitorState.gen + 1
            /\ Inactive(step'.afterFreq[1].ms)
       /\ (step'.kind = "text" /\ "ant" \in step'.path) =>
            /\ step'.afterAnt[1].ms.gen =
                 monitorState.gen + Cancellations(step'.path \cap {"freq", "ant"})
            /\ Inactive(step'.afterAnt[1].ms)
       /\ (step'.kind = "text" /\ "belowMean" \in step'.path) =>
            /\ Inactive(monitorState')
            /\ (step'.path = {"belowMean"} /\ monitorState.broadcastTimer = NoTimer) =>
                 monitorState' = [monitorState EXCEPT !.gen = @ + 1]
       /\ (step'.kind = "text" /\ "fix" \in step'.path) =>
            monitorState'.broadcastTimer # NoTimer
  /\ LET c == stopFindBroadcast(Ctx)
     IN /\ c.ms.gen = monitorState.gen + 1
        /\ Inactive(c.ms)
        /\ monitorState.broadcastTimer = NoTimer =>
             c = [Ctx EXCEPT !.ms.gen = @ + 1]
C28_GenerationCountsCancellations == [][C28_Step]_vars

\* a window below the threshold has been cancelled after earlier
\* cancellations, and the monitor is inactive with no timer
C28_Witness ==
  /\ step.kind = "text"
  /\ step.path = {"belowMean"}
  /\ monitorState.gen >= 3
  /\ Inactive(monitorState)

\* C29: a geo search whose frequency normalizes to no match returns, with an
\* identifier, exactly the active stations within maxDistanceKm whose
\* normalized identifier equals the query's, on any frequency, and returns
\* nothing when the identifier is absent or normalizes to empty.
C29_IdentifierOnlySearch ==
  (SearchResolved /\ cfgFile.mode = 1 /\ QueryFreq = FNull) =>
    IF QueryPi = <<>>
    THEN SearchList = <<>> /\ SearchConsulted = {}
    ELSE /\ ListSources(SearchList) = GeoExpected(ConsultedDataset, ConsultedName)
         /\ Len(SearchList) = Cardinality(ListSources(SearchList))

\* the record of the user list a candidate was made from
UserRecordOf(r) == cfgFile.myStantions[r.src.st]

\* C30: the user-list search returns a record only if its normalized
\* frequency equals the query's and, when it names an antenna, that antenna
\* is the query's; a record that carries a logo keeps it.
C30_UserListFilter ==
  (SearchResolved /\ cfgFile.mode = 2) =>
    \A i \in 1..Len(SearchList) :
      LET s == UserRecordOf(SearchList[i])
      IN /\ normalizeFreq(s.freq) = QueryFreq
         /\ s.hasAntenna => s.antenna = call.args.ant
         /\ s.logoUrl # <<>> => SearchList[i].logoUrl = s.logoUrl

\* the first key of the local catalog that equals the normalized text, and
\* the first that contains it or is contained in it; 0 when there is none
LocalKeyEqual(text) ==
  IF text = <<>> THEN 0
  ELSE FirstIndex({ k \in 1..Len(localLogos) :
                      normalizeName(localLogos[k].key) = normalizeName(text) })
LocalKeyContaining(text) ==
  IF text = <<>> THEN 0
  ELSE FirstIndex({ k \in 1..Len(localLogos) :
         \/ Includes(normalizeName(localLogos[k].key), normalizeName(text))
         \/ Includes(normalizeName(text), normalizeName(localLogos[k].key)) })
\* the identifier the local tier looks for: none for '' and 'noPI'
LocalPiOf(st) == IF UpperCase(st.pi) = NOPI THEN <<>> ELSE st.pi
LocalTierExpected ==
  LET st == call.args.st
  IN IF LocalKeyEqual(st.station) # 0 THEN LocalKeyEqual(st.station)
     ELSE IF LocalKeyEqual(LocalPiOf(st)) # 0 THEN LocalKeyEqual(LocalPiOf(st))
     ELSE IF LocalKeyContaining(st.station) # 0 THEN LocalKeyContaining(st.station)
     ELSE LocalKeyContaining(LocalPiOf(st))

\* C31: without an id-map entry, the local tier answers with the key that
\* equals the normalized name, else the key that equals the normalized
\* identifier, else a key that contains the name or is contained in it,
\* else such a key for the identifier; a later tier answers only when the
\* local catalog has none of these.
C31_LocalTierMatching ==
  (LogoResolved /\ ~IdMapHit) =>
    IF LocalTierExpected # 0
    THEN call.result[1].text = << LogosPath >> \o localLogos[LocalTierExpected].file
    ELSE call.result[1].tier \notin { "localExact", "localPartial" }

\* C32: after a telemetry event with transmitterInfo has been handled, and
\* until an event without it is handled, no broadcastFindOnce pushes the
\* list of its search.
C32_NoSearchPushUnderTransmitterInfo ==
  (step.kind = "resolve" /\ txHist.authoritative) => step.out = <<>>

\* C33: whenever the monitor is inactive, the last push attempted on the
\* channel carried an empty candidate list.
C33_InactiveMeansDisplayCleared ==
  ~monitorState.active => txHist.lastPushEmpty

\* C34: every push of a search result carries the frequency and the
\* identifier that are the monitor's active identity when it is sent, and
\* is sent only while the monitor is active.
C34_PushCarriesActiveIdentity ==
  (step.kind = "resolve" /\ step.out # <<>>) =>
    /\ monitorState.active
    /\ \A k \in 1..Len(step.out) :
         /\ step.out[k].freq = monitorState.activeFrequency
         /\ step.out[k].pi = monitorState.activePi
         /\ step.out[k].freq = step.search[1].s.freq

\* a search result with candidates is pushed for an identity fixed after
\* several cancellations
C34_Witness ==
  /\ step.kind = "resolve"
  /\ step.out # <<>>
  /\ step.out[1].list # <<>>
  /\ monitorState.gen >= 5
  /\ monitorState.activeFrequency = F2
  /\ monitorState.activePi # PNull

\* C35: after every handled event a broadcast interval exists exactly when
\* the monitor is active, and never more than one interval exists.
C35_OneTimerIffActive ==
  /\ monitorState.active <=> monitorState.broadcastTimer # NoTimer
  /\ txHist.liveIntervals = IF monitorState.active THEN 1 ELSE 0

\* a fixation that follows several cancellations leaves the monitor active
\* with its one interval
C35_Witness ==
  /\ step.kind = "text"
  /\ "fix" \in step.path
  /\ monitorState.active
  /\ monitorState.gen >= 5
  /\ txHist.liveIntervals = 1

\* the event d names the frequency, identifier and antenna frozen at
\* fixation
SameIdentity(d) ==
  /\ d.freq = monitorState.pendingFrequency
  /\ PiOf(d) = monitorState.pendingPi
  /\ d.ant = monitorState.pendingAnt

\* C36: while the monitor is fixed and active, a telemetry sample with the
\* frozen frequency, identifier and antenna changes neither the fixed flag,
\* the active identity, the generation, the accumulator nor the broadcast
\* timer, whatever its signal level.
C36_Step ==
  (signalFixed /\ monitorState.active /\ MonitorEvent /\ SameIdentity(step'.data)) =>
    /\ signalFixed'
    /\ monitorState' = monitorState
    /\ signalSum' = signalSum
    /\ signalCount' = signalCount
    /\ signalWindowStart' = signalWindowStart
    /\ txHist'.liveIntervals = txHist.liveIntervals
C36_SignalDropKeepsFixation == [][C36_Step]_vars

\* a sample below the threshold has been handled on the fixed identity and
\* the monitor is still fixed and active
C36_Witness ==
  /\ step.kind = "text"
  /\ step.path = {"fixed"}
  /\ SignalDbuv(step.data) < ThresholdOf(step.data)
  /\ SameIdentity(step.data)
  /\ signalFixed
  /\ monitorState.active

\* C37: a push attempted while the push channel is not open is not sent and
\* is kept nowhere: nothing is delivered when the channel opens again, and
\* broadcastFindOnce updates the last-broadcast time and leaves the monitor
\* active as it does after a push that was sent.
C37_Step ==
  step' # step =>
    /\ \A k \in 1..Len(step'.out) : step'.out[k].sent = wsPluginsOpen
    /\ step'.kind \in { "open", "close" } =>
         /\ step'.out = <<>>
         /\ monitorState' = monitorState
         /\ inflight' = inflight
    /\ (step'.kind = "resolve" /\ step'.out # <<>>) =>
         /\ monitorState' = [monitorState EXCEPT !.lastBroadcastAt = now]
         /\ monitorState'.active
         /\ Len(inflight') = Len(inflight) - 1
C37_ClosedChannelDiscardsPush == [][C37_Step]_vars

\* a search result was pushed while the channel was closed: not sent, and
\* the last-broadcast time is that of the attempt
C37_Witness ==
  /\ step.kind = "resolve"
  /\ ~wsPluginsOpen
  /\ step.out # <<>>
  /\ step.out[1].list # <<>>
  /\ ~step.out[1].sent
  /\ monitorState.active
  /\ monitorState.lastBroadcastAt = now

\* kHz values that are channels of the low-band and of the main-band grid
OnLowGrid(k) == k >= LowBandMin /\ k <= LowBandMax /\ k % LowBandStepKHz = 0
OnMainGrid(k) == k >= LowBandMax /\ k <= MainBandMax /\ k % MainBandStepKHz = 0

\* C38: every frequency from 65.9 MHz to 108.0 MHz inclusive normalizes to
\* a channel of one of the two grids, never to no match.
C38_CoveredRangeNormalizes ==
  ( /\ call.fn = "normalizeFreq"
    /\ Len(call.result) >= 1
    /\ call.args.f >= LowBandMin
    /\ call.args.f <= MainBandMax ) =>
      /\ call.result[1] # FNull
      /\ OnLowGrid(call.result[1]) \/ OnMainGrid(call.result[1])

\* C39: for a query with an identifier, every record the user-list search
\* returns has no identifier of its own or one whose normalized form equals
\* the query's.
C39_UserListHonoursIdentifier ==
  (SearchResolved /\ cfgFile.mode = 2 /\ QueryPi # <<>>) =>
    \A i \in 1..Len(SearchList) :
      LET s == UserRecordOf(SearchList[i])
      IN s.pi = <<>> \/ normalizePi(s.pi) = QueryPi

\* Array.isArray(list) ? list : [] of the push the subscriber handled last
PushedCandidates ==
  IF call.step.list.isArray THEN call.step.list.items ELSE <<>>

\* C40: on the subscriber the selected index is 0 when no candidate is
\* stored and otherwise at least 0 and less than the number of candidates
\* stored, after any pushes and prev/next clicks; a push whose list is the
\* one handled last changes nothing of the index and the display.
C40_IndexWithinBounds ==
  call.fn = "subscriber" =>
    /\ call.ui.currentCandidates = <<>> => call.ui.currentCandidateIndex = 0
    /\ call.ui.currentCandidates # <<>> =>
         /\ call.ui.currentCandidateIndex >= 0
         /\ call.ui.currentCandidateIndex < Len(call.ui.currentCandidates)
    /\ ( /\ call.step.kind = "find"
         /\ call.step.before.lastCandidatesHash = hashCandidates(PushedCandidates) ) =>
           call.ui = call.step.before

\* the second of two candidates was selected and a push with one candidate
\* has been handled: the first is selected and shown
C40_Witness ==
  /\ call.fn = "subscriber"
  /\ call.step.kind = "find"
  /\ call.step.before.currentCandidateIndex = 1
  /\ Len(call.step.before.currentCandidates) = 2
  /\ Len(call.ui.currentCandidates) = 1
  /\ call.ui.currentCandidateIndex = 0
  /\ call.ui.container = "block"
====
